---- MODULE Spec2Model ----
(***************************************************************************)
(* A model of the CH3SS move-selection workers.                            *)
(*                                                                         *)
(*   - the search worker (src/unnamed/part_000): message handler,          *)
(*     findBestMove, minimax with alpha-beta, transposition table and      *)
(*     killer table, quiescenceSearch, orderMoves, evaluatePosition;       *)
(*   - the older worker (src/ai-worker.js): minimaxRoot, minimax with      *)
(*     move/undo on one chess instance, orderMoves, the opening book;      *)
(*   - the engine integration (src/stockfish-integration.js): loading the  *)
(*     engine worker, the 'readyok' handshake, requestStockfishMove and    *)
(*     its per-request message listener.                                   *)
(*                                                                         *)
(* chess.js is an external rules engine.  It is represented by a finite    *)
(* game graph (Game): every position is named by its FEN, and carries the  *)
(* answers chess.js gives for it (turn, legal moves in generation order,   *)
(* in_check, in_checkmate, in_draw) and the board-derived part of the      *)
(* static evaluation.  A FEN holds the move counters, so a move always     *)
(* leads to a position one layer further down: the graph is layered, and   *)
(* the same FEN is reached by different move orders (transpositions).      *)
(***************************************************************************)
EXTENDS Integers, Sequences, FiniteSets, TLC

VARIABLES
  transpositionTable,  \* part_000: fen -> [value, depth]
  killerMoves,         \* part_000: ply -> <<first, second>> (SAN or None)
  searchStats,         \* part_000: the counters of the current/last episode
  posted,              \* part_000: messages posted to the main thread
  last,                \* part_000: what the last episode was given and did
  oldKillers,          \* ai-worker.js: depth -> <<first, second>> (move or None)
  oldPosted,           \* ai-worker.js: messages posted to the main thread
  openingBook,         \* ai-worker.js: normalized key -> candidate moves
  oldLast,             \* ai-worker.js: what the last episode was given and did
  evalIn,              \* part_000: a position handed to evaluatePosition
  evalOut,             \* part_000: what evaluatePosition returned for it
  stockfish,           \* stockfish-integration.js: the engine worker, or null
  stockfishReady,      \* stockfish-integration.js: 'readyok' was received
  stockfishLoaded,     \* stockfish-integration.js: the engine script has loaded
  script,              \* the engine script element: none, loading, loaded, failed
  listeners,           \* the 'message' listeners registered on the engine worker
  engineIn,            \* the commands posted to the engine worker, in order
  engineOut,           \* the lines the engine has emitted, in order
  callbacks,           \* the callback invocations made, in order
  requests             \* the requestStockfishMove calls made and what they returned

newVars == <<transpositionTable, killerMoves, searchStats, posted, last>>
oldVars == <<oldKillers, oldPosted, openingBook, oldLast>>
evalVars == <<evalIn, evalOut>>
sfVars == <<stockfish, stockfishReady, stockfishLoaded, script, listeners,
            engineIn, engineOut, callbacks, requests>>

vars == <<newVars, oldVars, evalVars, sfVars>>

(***************************************************************************)
(* Bounds of the model.                                                    *)
(***************************************************************************)
MaxEpisodes == 2      \* messages handled by each worker
MaxDepth == 3         \* largest search depth a message asks for
MaxExtraPieces == 2   \* pieces besides the kings on an evaluated board
MaxRequests == 2      \* requestStockfishMove calls
MaxEngineLines == 4   \* lines the engine emits

(***************************************************************************)
(* JavaScript values.                                                      *)
(***************************************************************************)
Inf == 100000000      \* Infinity: above every score the program computes
NegInf == -Inf
None == "none"        \* null / undefined

Max(a, b) == IF a >= b THEN a ELSE b
Min(a, b) == IF a <= b THEN a ELSE b

SetMax(S) == CHOOSE x \in S : \A y \in S : y <= x
SetMin(S) == CHOOSE x \in S : \A y \in S : x <= y

(***************************************************************************)
(* The rules engine: a finite layered game graph.                          *)
(***************************************************************************)
Mv(san, piece, from, to, captured, promotion, next) ==
  [san |-> san, piece |-> piece, from |-> from, to |-> to,
   captured |-> captured, promotion |-> promotion, next |-> next]

Quiet(san, piece, from, to, next) == Mv(san, piece, from, to, None, None, next)
Capt(san, piece, from, to, victim, next) == Mv(san, piece, from, to, victim, None, next)
\* null where the code holds a move
NoMove == Mv(None, None, None, None, None, None, 0)

Pos(turn, check, mate, draw, static, moves) ==
  [turn |-> turn, check |-> check, mate |-> mate, draw |-> draw,
   static |-> static, moves |-> moves]

Live(turn, static, moves) == Pos(turn, FALSE, FALSE, FALSE, static, moves)
Checked(turn, static, moves) == Pos(turn, TRUE, FALSE, FALSE, static, moves)
Mated(turn) == Pos(turn, TRUE, TRUE, FALSE, 0, <<>>)
Drawn(turn) == Pos(turn, FALSE, FALSE, TRUE, 0, <<>>)

ShortLines == <<
  \* --- A: two move orders reach position 8 (1...Nf6 2.Nf3 Nc6 / 1...Nc6 2.Nf3 Nf6)
  (* 1*) Live("b", -3, << Quiet("Nf6", "n", "g8", "f6", 2),
                         Quiet("Nc6", "n", "b8", "c6", 3) >>),
  (* 2*) Live("w", -2, << Quiet("d3", "p", "d2", "d3", 4),
                         Quiet("Nf3", "n", "g1", "f3", 5) >>),
  (* 3*) Live("w", -4, << Quiet("Nf3", "n", "g1", "f3", 6) >>),
  (* 4*) Live("b", -1, << Quiet("d6", "p", "d7", "d6", 7) >>),
  (* 5*) Live("b", -2, << Quiet("Nc6", "n", "b8", "c6", 8),
                         Quiet("d6", "p", "d7", "d6", 9) >>),
  (* 6*) Live("b", -3, << Quiet("Nf6", "n", "g8", "f6", 8),
                         Quiet("d6", "p", "d7", "d6", 10) >>),
  (* 7*) Live("w", 5, << Quiet("O-O", "k", "e1", "g1", 11) >>),
  (* 8*) Live("w", 9, << Quiet("d4", "p", "d2", "d4", 11) >>),
  (* 9*) Live("w", 4, << Capt("Bxc6", "b", "b5", "c6", "n", 12),
                        Quiet("d4", "p", "d2", "d4", 11) >>),
  (*10*) Live("w", 3, << Quiet("d4", "p", "d2", "d4", 11) >>),
  (*11*) Drawn("b"),
  \* --- a capture sequence longer than the quiescence cap: 9 12 13 14 15 16 17
  (*12*) Live("b", -6, << Capt("bxc6", "p", "b7", "c6", "b", 13) >>),
  (*13*) Live("w", 2, << Capt("Nxe5", "n", "f3", "e5", "p", 14) >>),
  (*14*) Live("b", -7, << Capt("dxe5", "p", "d6", "e5", "n", 15) >>),
  (*15*) Live("w", 6, << Capt("Qxd8+", "q", "d1", "d8", "q", 16) >>),
  (*16*) Checked("b", -3, << Capt("Kxd8", "k", "e8", "d8", "q", 17) >>),
  (*17*) Drawn("w"),
  \* --- B: mates and stalemate (1.f3 e5 2.g4 Qh4#)
  (*18*) Live("b", 1, << Quiet("Qh4#", "q", "d8", "h4", 19),
                        Quiet("Nc6", "n", "b8", "c6", 20) >>),
  (*19*) Mated("w"),
  (*20*) Live("w", 2, << Capt("Qxf7#", "q", "h5", "f7", "p", 21),
                        Quiet("d3", "p", "d2", "d3", 22) >>),
  (*21*) Mated("b"),
  (*22*) Drawn("b"),
  \* --- C: every kind of move orderMoves tells apart
  (*23*) Live("b", 0, << Quiet("Nf6", "n", "g8", "f6", 24),
                        Quiet("d5+", "p", "d6", "d5", 25),
                        Capt("exd4", "p", "e5", "d4", "p", 26),
                        Mv("e1=Q+", "p", "e2", "e1", None, "q", 27),
                        Capt("Qxb2", "q", "b6", "b2", "p", 28),
                        Quiet("Be7", "b", "f8", "e7", 29) >>),
  (*24*) Live("w", 0, << Quiet("d4", "p", "d2", "d4", 22) >>),
  (*25*) Checked("w", 2, << Quiet("Kd1", "k", "e1", "d1", 22) >>),
  (*26*) Live("w", 3, << Capt("Qxd4", "q", "d1", "d4", "p", 30) >>),
  (*27*) Checked("w", 12, << Quiet("Kf2", "k", "g1", "f2", 22) >>),
  (*28*) Live("w", 1, << Capt("Bxb2", "b", "c1", "b2", "q", 30) >>),
  (*29*) Live("w", 0, << Quiet("d4", "p", "d2", "d4", 22) >>),
  (*30*) Drawn("b"),
  \* --- D: position 9 reached again, two plies below another root
  (*31*) Live("b", 0, << Quiet("Be7", "b", "f8", "e7", 9),
                        Quiet("a6", "p", "a7", "a6", 32) >>),
  (*32*) Live("w", 7, << Quiet("d4", "p", "d2", "d4", 11) >>),
  (*33*) Live("w", 1, << Quiet("h3", "p", "h2", "h3", 31),
                        Quiet("g3", "p", "g2", "g3", 34) >>),
  (*34*) Live("b", 2, << Quiet("a6", "p", "a7", "a6", 35) >>),
  (*35*) Live("w", 8, << Quiet("d4", "p", "d2", "d4", 11) >>)
>>

\* --- E: positions 36..57, a line of LongLineLength quiet king moves (black
\* Kh8, white Kh1, black Kg8, white Kg1, ...) that ends in the drawn
\* position 11: longer than the killer table of the search worker has rows.
LongLineLength == 22
LongLineMove(k) ==
  Quiet((IF ((k - 1) \div 2) % 2 = 0 THEN "Kh" ELSE "Kg") \o (IF k % 2 = 1 THEN "8" ELSE "1"),
        "k",
        (IF ((k - 1) \div 2) % 2 = 0 THEN "g" ELSE "h") \o (IF k % 2 = 1 THEN "8" ELSE "1"),
        (IF ((k - 1) \div 2) % 2 = 0 THEN "h" ELSE "g") \o (IF k % 2 = 1 THEN "8" ELSE "1"),
        IF k = LongLineLength THEN 11 ELSE Len(ShortLines) + k + 1)
LongLine ==
  [k \in 1..LongLineLength |-> Live(IF k % 2 = 1 THEN "b" ELSE "w", 0, <<LongLineMove(k)>>)]

Game == ShortLines \o LongLine

Positions == DOMAIN Game

(***************************************************************************)
(* A Chess object: an identity, the current position and the history      *)
(* that undo() pops.  Objects are passed by reference in the program: a    *)
(* callee's changes to the object it was given reach its caller, which the *)
(* model expresses by handing the object's state back with every result.   *)
(***************************************************************************)
NewChess(id, fen) == [id |-> id, pos |-> fen, hist |-> <<>>]

Fen(chess) == chess.pos
Turn(chess) == Game[chess.pos].turn
Moves(chess) == Game[chess.pos].moves
InCheck(chess) == Game[chess.pos].check
InCheckmate(chess) == Game[chess.pos].mate
InDraw(chess) == Game[chess.pos].draw
\* A variant of game_over() that misses the draws.
GameOverMateOnly(chess) == InCheckmate(chess)
\* chess.game_over()
GameOver(chess) == InCheckmate(chess) \/ InDraw(chess)

\* chess.move(m): applies m when it is legal in the current position, and
\* otherwise leaves the object alone (chess.js returns null).
IsLegal(chess, m) == \E i \in DOMAIN Moves(chess) : Moves(chess)[i] = m

MoveChess(chess, m) ==
  IF IsLegal(chess, m)
  THEN [chess EXCEPT !.pos = m.next, !.hist = Append(chess.hist, chess.pos)]
  ELSE chess

\* chess.undo(): takes back the last move made on this object, if any.
UndoChess(chess) ==
  IF chess.hist = <<>> THEN chess
  ELSE [chess EXCEPT !.pos = chess.hist[Len(chess.hist)],
                     !.hist = SubSeq(chess.hist, 1, Len(chess.hist) - 1)]

\* new Chess(chessInstance.fen()): a fresh object at the same position.
CopyChess(chess, id) == NewChess(id, Fen(chess))

\* What the caller's object holds after a callee returned the object `ret`:
\* the callee's changes show exactly when `ret` is the caller's own object.
After(chess, ret) == IF ret.id = chess.id THEN ret ELSE chess

(***************************************************************************)
(* The search worker, src/unnamed/part_000.                                *)
(*                                                                         *)
(* The functions below thread the worker's mutable globals through every   *)
(* call in a record st:                                                    *)
(*   tt, killers                  the two tables                           *)
(*   nodesSearched, quiescenceNodes, transpositionHits   searchStats       *)
(*   rnd, rndCalls                the values Math.random() yields in this  *)
(*                                episode and how many were drawn          *)
(* and observations of the run, which no code reads:                       *)
(*   maxQPly    the largest ply counter a quiescenceSearch call was given  *)
(*   hits       <<fen, stored depth, remaining depth>> of every cached     *)
(*              value minimax returned                                     *)
(*   frameOk    every call so far returned with its caller's Chess object  *)
(*              as it was when the call was made                           *)
(*   cuts       <<ply, move>> of every move after which beta <= alpha held *)
(*   storesOk   no write to the table replaced an entry of greater depth   *)
(*   stats0     the counters as the search found them                      *)
(* and err: a TypeError was thrown (a read of a killer row that does not   *)
(* exist), which unwinds every call up to the message handler.             *)
(* Every function returns [value, st, chess]: its result, the globals      *)
(* after it, and the state of the Chess object it was given.               *)
(***************************************************************************)
Ret(value, st, chess) == [value |-> value, st |-> st, chess |-> chess]

\* One draw of Math.floor(Math.random() * 10): a digit 0..9.
RandomDigit(st) == st.rnd[(st.rndCalls % Len(st.rnd)) + 1]

\* evaluatePosition, the checkmate shortcut.
MateScore(turn) == IF turn = "w" THEN -10000 ELSE 10000

\* evaluatePosition: the terminal shortcuts, else the board-derived score
\* (material, piece-square, bishop pair, mobility, king safety, doubled
\* pawns: a function of the position alone, Game[fen].static) plus jitter.
evaluatePosition(chess, st) ==
  IF InCheckmate(chess) THEN [value |-> MateScore(Turn(chess)), st |-> st]
  ELSE IF InDraw(chess) THEN [value |-> 0, st |-> st]
  ELSE [value |-> Game[Fen(chess)].static + RandomDigit(st) - 5,
        st |-> [st EXCEPT !.rndCalls = @ + 1]]

\* The relative piece weights of move ordering.
pieceValues(piece) ==
  CASE piece = "p" -> 1 [] piece = "n" -> 3 [] piece = "b" -> 3
    [] piece = "r" -> 5 [] piece = "q" -> 9 [] piece = "k" -> 0

\* Array.prototype.sort((a, b) => b.score - a.score): descending by score,
\* equal scores keep their order.
RECURSIVE InsertByScore(_, _)
InsertByScore(x, s) ==
  IF s = <<>> THEN <<x>>
  ELSE IF x.score > Head(s).score THEN <<x>> \o s
  ELSE <<Head(s)>> \o InsertByScore(x, Tail(s))

RECURSIVE SortByScore(_)
SortByScore(s) ==
  IF s = <<>> THEN <<>>
  ELSE InsertByScore(s[Len(s)], SortByScore(SubSeq(s, 1, Len(s) - 1)))

MovesOf(scored) == [i \in DOMAIN scored |-> scored[i].move]

isCapture(move) == move.captured # None

\* transpositionTable[fen]?.bestMove
TTBestMove(tt, fen) ==
  IF fen \in DOMAIN tt /\ "bestMove" \in DOMAIN tt[fen] THEN tt[fen].bestMove
  ELSE None

\* orderMoves, the bonuses of a move that is neither the table's move, a
\* capture nor a killer.
QuietBonus(chess, move) ==
  (IF InCheck(MoveChess(CopyChess(chess, chess.id + 1), move)) THEN 500000 ELSE 0)
  + (IF move.piece = "p" /\ move.to \in {"e4", "d4", "e5", "d5"} THEN 400000 ELSE 0)
  + (IF move.piece = "p" /\ move.promotion # None
     THEN 700000 + pieceValues(move.promotion) ELSE 0)

\* orderMoves, the score of one move.
MoveScore(chess, move, plyFromRoot, tt, killers) ==
  LET ttMove == TTBestMove(tt, Fen(chess))
  IN IF ttMove # None /\ move.san = ttMove THEN 10000000
     ELSE IF move.captured # None
       THEN 1000000 + pieceValues(move.captured) * 10 - pieceValues(move.piece)
     ELSE IF killers[plyFromRoot][1] = move.san THEN 900000
     ELSE IF killers[plyFromRoot][2] = move.san THEN 800000
     ELSE QuietBonus(chess, move)

\* orderMoves, line 253: killerMoves[plyFromRoot][0] throws a TypeError when
\* the table has no row plyFromRoot and some move reaches the killer test
\* (it is neither the table's move nor a capture).
orderMovesThrows(chess, moves, plyFromRoot, tt, killers) ==
  /\ plyFromRoot \notin DOMAIN killers
  /\ \E i \in DOMAIN moves :
       /\ ~(TTBestMove(tt, Fen(chess)) # None /\ moves[i].san = TTBestMove(tt, Fen(chess)))
       /\ moves[i].captured = None

orderMoves(chess, moves, plyFromRoot, tt, killers) ==
  MovesOf(SortByScore(
    [i \in DOMAIN moves |->
       [move |-> moves[i],
        score |-> MoveScore(chess, moves[i], plyFromRoot, tt, killers)]]))

orderMovesMVVLVA(moves) ==
  MovesOf(SortByScore(
    [i \in DOMAIN moves |->
       [move |-> moves[i],
        score |-> pieceValues(moves[i].captured) * 10 - pieceValues(moves[i].piece)]]))

\* moves.filter(move => move.captured)
RECURSIVE Captures(_)
Captures(moves) ==
  IF moves = <<>> THEN <<>>
  ELSE IF Head(moves).captured # None THEN <<Head(moves)>> \o Captures(Tail(moves))
  ELSE Captures(Tail(moves))

\* A variant of the cap test that lets one more ply through.
QuiescenceCapOffByOne(depth, maxDepth) == depth > maxDepth
\* quiescenceSearch, line 207: the ply cap.
QuiescenceCapReached(depth, maxDepth) == depth >= maxDepth

\* What a caller records when a callee returned the object `ret`: whether
\* the caller's own object is still as it was.
Framed(st, chess, ret) == [st EXCEPT !.frameOk = @ /\ (After(chess, ret) = chess)]

RECURSIVE quiescenceSearch(_, _, _, _, _, _)
RECURSIVE quiescenceAfterEval(_, _, _, _, _, _)
RECURSIVE quiescenceLoop(_, _, _, _, _, _, _, _)
RECURSIVE quiescenceStep(_, _, _, _, _, _, _, _)
quiescenceSearch(chess, alpha, beta, depth, maxDepth, st) ==
  quiescenceAfterEval(
    evaluatePosition(chess, [st EXCEPT !.quiescenceNodes = @ + 1,
                                       !.maxQPly = Max(@, depth)]),
    chess, alpha, beta, depth, maxDepth)

\* quiescenceSearch from line 201 on; e is evaluatePosition's result.
quiescenceAfterEval(e, chess, alpha, beta, depth, maxDepth) ==
  IF e.value >= beta THEN Ret(beta, e.st, chess)
  ELSE IF QuiescenceCapReached(depth, maxDepth) THEN Ret(e.value, e.st, chess)
  ELSE quiescenceLoop(orderMovesMVVLVA(Captures(Moves(chess))), 1, chess,
                      IF alpha < e.value THEN e.value ELSE alpha,
                      beta, depth, maxDepth, e.st)

\* quiescenceSearch, the loop over the ordered captures from the i-th on.
quiescenceLoop(moves, i, chess, alpha, beta, depth, maxDepth, st) ==
  IF i > Len(moves) THEN Ret(alpha, st, chess)
  ELSE quiescenceStep(
         quiescenceSearch(MoveChess(CopyChess(chess, chess.id + 1), moves[i]),
                          -beta, -alpha, depth + 1, maxDepth, st),
         moves, i, chess, alpha, beta, depth, maxDepth)

\* quiescenceSearch, lines 221-224; r is the recursive call's result.
quiescenceStep(r, moves, i, chess, alpha, beta, depth, maxDepth) ==
  IF -r.value >= beta
  THEN Ret(beta, Framed(r.st, chess, r.chess), After(chess, r.chess))
  ELSE quiescenceLoop(moves, i + 1, After(chess, r.chess),
                      IF -r.value > alpha THEN -r.value ELSE alpha,
                      beta, depth, maxDepth, Framed(r.st, chess, r.chess))

\* A variant of the table test that ignores the stored depth.
TTUsableAnyDepth(tt, fen, depth) == fen \in DOMAIN tt
\* A variant that never takes a value from the table.
TTUsableNever(tt, fen, depth) == FALSE
\* Line 23: Array(20), the rows of killerMoves.
KillerRows == 20

\* minimax, line 125: is the cached entry for fen usable at this depth?
TTUsable(tt, fen, depth) == fen \in DOMAIN tt /\ tt[fen].depth >= depth

\* A variant of the write that records the position's first move as its best.
TTStoreWithBestMove(tt, fen, value, depth) ==
  (fen :> [value |-> value, depth |-> depth,
           bestMove |-> IF Game[fen].moves = <<>> THEN None ELSE Game[fen].moves[1].san]) @@ tt
\* transpositionTable[fen] = { value, depth }
TTStore(tt, fen, value, depth) == (fen :> [value |-> value, depth |-> depth]) @@ tt

Stored(st, fen, value, depth) ==
  [st EXCEPT !.tt = TTStore(@, fen, value, depth),
             !.storesOk = @ /\ (fen \in DOMAIN st.tt => st.tt[fen].depth <= depth)]

\* A variant that shifts the slots without the test of line 155.
RecordKillerNoTest(killers, plyFromRoot, san) ==
  [killers EXCEPT ![plyFromRoot] = <<san, killers[plyFromRoot][1]>>]
\* minimax, lines 155-158: record a killer at this ply.
RecordKiller(killers, plyFromRoot, san) ==
  IF killers[plyFromRoot][1] # san
  THEN [killers EXCEPT ![plyFromRoot] = <<san, killers[plyFromRoot][1]>>]
  ELSE killers

\* minimax, lines 152 / 176: beta <= alpha held after `move` was searched.
Cutoff(st, plyFromRoot, move) == [st EXCEPT !.cuts = @ \cup {<<plyFromRoot, move>>}]

\* A variant that records the move of every cutoff, captures included.
AfterCutoffAnyMove(st, plyFromRoot, move) ==
  [st EXCEPT !.killers = RecordKiller(@, plyFromRoot, move.san)]
\* minimax, lines 152-160: the globals after a cutoff caused by `move`.
AfterCutoff(st, plyFromRoot, move) ==
  IF ~isCapture(move)
  THEN [st EXCEPT !.killers = RecordKiller(@, plyFromRoot, move.san)]
  ELSE st

\* minimax, lines 125-128: the cached value is returned.
TTReturn(st, fen, depth, chess) ==
  Ret(st.tt[fen].value,
      [st EXCEPT !.transpositionHits = @ + 1,
                 !.hits = @ \cup {<<fen, st.tt[fen].depth, depth>>}],
      chess)

\* A TypeError leaves the function: no value, the globals as they are.
Thrown(st, chess) == Ret(0, [st EXCEPT !.err = TRUE], chess)

\* minimax, lines 134-135; q is quiescenceSearch's result.
LeafReturn(q, fen, depth) == Ret(q.value, Stored(q.st, fen, q.value, depth), q.chess)

RECURSIVE minimax(_, _, _, _, _, _, _)
RECURSIVE minimaxBody(_, _, _, _, _, _, _)
RECURSIVE minimaxLoop(_, _, _, _, _, _, _, _, _, _, _)
RECURSIVE minimaxStep(_, _, _, _, _, _, _, _, _, _, _)
RECURSIVE minimaxNext(_, _, _, _, _, _, _, _, _, _, _)
minimax(depth, chess, isMaximizing, alpha, beta, plyFromRoot, st) ==
  minimaxBody(depth, chess, isMaximizing, alpha, beta, plyFromRoot,
              [st EXCEPT !.nodesSearched = @ + 1])

\* minimax from line 122 on.
minimaxBody(depth, chess, isMaximizing, alpha, beta, plyFromRoot, st) ==
  IF TTUsable(st.tt, Fen(chess), depth) THEN TTReturn(st, Fen(chess), depth, chess)
  ELSE IF depth <= 0 \/ GameOver(chess)
  THEN LeafReturn(quiescenceSearch(chess, alpha, beta, 0, 3, st), Fen(chess), depth)
  ELSE IF orderMovesThrows(chess, Moves(chess), plyFromRoot, st.tt, st.killers)
  THEN Thrown(st, chess)
  ELSE minimaxLoop(orderMoves(chess, Moves(chess), plyFromRoot, st.tt, st.killers),
                   1, depth, chess, Fen(chess), isMaximizing,
                   IF isMaximizing THEN NegInf ELSE Inf,
                   alpha, beta, plyFromRoot, st)

\* minimax, the loop over the ordered moves from the i-th on, and the store
\* of the node's value that follows it (lines 164 and 188).
minimaxLoop(moves, i, depth, chess, fen, isMaximizing, value, alpha, beta, plyFromRoot, st) ==
  IF i > Len(moves) THEN Ret(value, Stored(st, fen, value, depth), chess)
  ELSE minimaxStep(
         minimax(depth - 1, MoveChess(CopyChess(chess, chess.id + 1), moves[i]),
                 ~isMaximizing, alpha, beta, plyFromRoot + 1, st),
         moves, i, depth, chess, fen, isMaximizing, value, alpha, beta, plyFromRoot)

\* minimax, lines 148-149 / 172-173; r is the recursive call's result.  A
\* TypeError thrown below ends this call too.
minimaxStep(r, moves, i, depth, chess, fen, isMaximizing, value, alpha, beta, plyFromRoot) ==
  IF r.st.err THEN Thrown(r.st, After(chess, r.chess))
  ELSE minimaxNext(moves, i, depth, After(chess, r.chess), fen, isMaximizing,
                   IF isMaximizing THEN Max(value, r.value) ELSE Min(value, r.value),
                   alpha, beta, plyFromRoot, Framed(r.st, chess, r.chess))

\* minimax, lines 149-161 / 173-185; value is the node's value after this
\* move, alpha and beta the window before it.
minimaxNext(moves, i, depth, chess, fen, isMaximizing, value, alpha, beta, plyFromRoot, st) ==
  IF (IF isMaximizing THEN beta ELSE Min(beta, value))
        <= (IF isMaximizing THEN Max(alpha, value) ELSE alpha)
  THEN Ret(value,
           Stored(AfterCutoff(Cutoff(st, plyFromRoot, moves[i]), plyFromRoot, moves[i]),
                  fen, value, depth),
           chess)
  ELSE minimaxLoop(moves, i + 1, depth, chess, fen, isMaximizing, value,
                   IF isMaximizing THEN Max(alpha, value) ELSE alpha,
                   IF isMaximizing THEN beta ELSE Min(beta, value),
                   plyFromRoot, st)

\* A variant that starts the best value at 0 instead of -+Infinity.
InitialBestValueZero(isMaximizing) == 0
\* findBestMove, line 88: the value every root move has to beat.
InitialBestValue(isMaximizing) == IF isMaximizing THEN NegInf ELSE Inf

\* A variant that lets an equal value replace the best so far.
ImprovesOrEqual(isMaximizing, value, bestValue) ==
  IF isMaximizing THEN value >= bestValue ELSE value <= bestValue
\* findBestMove, lines 101 and 107: does value replace the best so far?
Improves(isMaximizing, value, bestValue) ==
  IF isMaximizing THEN value > bestValue ELSE value < bestValue

BestRet(bestMove, bestValue, st, chess, searched) ==
  [bestMove |-> bestMove, bestValue |-> bestValue, st |-> st, chess |-> chess,
   searched |-> searched]

\* findBestMove, the loop over the ordered root moves from the i-th on.
\* searched lists the root moves handed to minimax, in order, each with the
\* window it was searched under and the value minimax returned for it.
RECURSIVE findBestLoop(_, _, _, _, _, _, _, _, _, _, _)
RECURSIVE findBestStep(_, _, _, _, _, _, _, _, _, _, _)
RECURSIVE findBestNext(_, _, _, _, _, _, _, _, _, _, _)
findBestLoop(moves, i, depth, chess, isMaximizing, bestMove, bestValue, alpha, beta, searched, st) ==
  IF i > Len(moves) THEN BestRet(bestMove, bestValue, st, chess, searched)
  ELSE findBestStep(
         minimax(depth - 1, MoveChess(CopyChess(chess, chess.id + 1), moves[i]),
                 ~isMaximizing, alpha, beta, 0, st),
         moves, i, depth, chess, isMaximizing, bestMove, bestValue, alpha, beta,
         searched)

\* findBestMove, lines 100-110; r is minimax's result.  A TypeError thrown
\* below leaves findBestMove without a result.
findBestStep(r, moves, i, depth, chess, isMaximizing, bestMove, bestValue, alpha, beta, searched) ==
  IF r.st.err THEN BestRet(NoMove, bestValue, r.st, After(chess, r.chess), searched)
  ELSE findBestNext(moves, i, depth, After(chess, r.chess), isMaximizing,
                    IF Improves(isMaximizing, r.value, bestValue) THEN moves[i] ELSE bestMove,
                    IF Improves(isMaximizing, r.value, bestValue) THEN r.value ELSE bestValue,
                    alpha, beta,
                    Append(searched, [move |-> moves[i], value |-> r.value,
                                      alpha |-> alpha, beta |-> beta]),
                    Framed(r.st, chess, r.chess))

\* A variant that leaves the loop once the best value is a mate score.
findBestNextStopsAtMate(moves, i, depth, chess, isMaximizing, bestMove, bestValue, alpha, beta, searched, st) ==
  IF bestValue >= 10000 \/ bestValue <= -10000
  THEN BestRet(bestMove, bestValue, st, chess, searched)
  ELSE findBestLoop(moves, i + 1, depth, chess, isMaximizing, bestMove, bestValue,
                    IF isMaximizing THEN Max(alpha, bestValue) ELSE alpha,
                    IF isMaximizing THEN beta ELSE Min(beta, bestValue),
                    searched, st)
\* findBestMove, lines 105 and 111: the window for the next root move.
findBestNext(moves, i, depth, chess, isMaximizing, bestMove, bestValue, alpha, beta, searched, st) ==
  findBestLoop(moves, i + 1, depth, chess, isMaximizing, bestMove, bestValue,
               IF isMaximizing THEN Max(alpha, bestValue) ELSE alpha,
               IF isMaximizing THEN beta ELSE Min(beta, bestValue),
               searched, st)

\* A variant whose empty-root return comes after the root was counted as a node.
findBestMoveCountingRoot(chess, depth, aiColor, st) ==
  IF Len(Moves(chess)) = 0
  THEN BestRet(NoMove, InitialBestValue(aiColor = "black"),
               [st EXCEPT !.nodesSearched = @ + 1], chess, <<>>)
  ELSE findBestLoop(orderMoves(chess, Moves(chess), 0, st.tt, st.killers), 1, depth,
                    chess, aiColor = "black", NoMove,
                    InitialBestValue(aiColor = "black"), NegInf, Inf, <<>>, st)

\* findBestMove; [bestMove, bestValue, st, chess, searched].
findBestMove(chess, depth, aiColor, st) ==
  IF Len(Moves(chess)) = 0
  THEN BestRet(NoMove, InitialBestValue(aiColor = "black"), st, chess, <<>>)
  ELSE findBestLoop(orderMoves(chess, Moves(chess), 0, st.tt, st.killers), 1, depth,
                    chess, aiColor = "black", NoMove,
                    InitialBestValue(aiColor = "black"), NegInf, Inf, <<>>, st)

(***************************************************************************)
(* The search worker's message handler.                                    *)
(***************************************************************************)
Roots == {1, 2, 3, 5, 9, 16, 18, 19, 20, 22, 23, 33}     \* the FENs messages carry
Depths == 1..MaxDepth
Colors == {"white", "black"}
MessageActions == {"move", "stats"}
\* What Math.random() yields during an episode, as the digits
\* Math.floor(Math.random() * 10), repeated; <<5>> is a jitter of 0 throughout.
RandomStreams == {<<5>>, <<0, 9>>}

NoJitter == <<5>>

\* searchStats as the worker starts (the two clock readings are left out)
ZeroStats == [nodesSearched |-> 0, quiescenceNodes |-> 0, transpositionHits |-> 0]

\* A variant that leaves the node counter as it is.
resetSearchStatsKeepsNodes(stats) ==
  [stats EXCEPT !.quiescenceNodes = 0, !.transpositionHits = 0]
\* resetSearchStats
resetSearchStats(stats) ==
  [stats EXCEPT !.nodesSearched = 0, !.quiescenceNodes = 0, !.transpositionHits = 0]

\* The globals as a search finds them when the counters are zero.
StartState(tt, killers, rnd) ==
  [tt |-> tt, killers |-> killers,
   nodesSearched |-> 0, quiescenceNodes |-> 0, transpositionHits |-> 0,
   rnd |-> rnd, rndCalls |-> 0,
   maxQPly |-> -1, hits |-> {}, frameOk |-> TRUE, cuts |-> {}, storesOk |-> TRUE,
   stats0 |-> ZeroStats, err |-> FALSE]

\* The globals as the episode's search finds them: the counters are the
\* worker's searchStats.
WithStats(st, stats) ==
  [st EXCEPT !.nodesSearched = stats.nodesSearched,
             !.quiescenceNodes = stats.quiescenceNodes,
             !.transpositionHits = stats.transpositionHits,
             !.stats0 = stats]

StatsOf(st) ==
  [nodesSearched |-> st.nodesSearched, quiescenceNodes |-> st.quiescenceNodes,
   transpositionHits |-> st.transpositionHits]

NoSummary == [fen |-> 0, depth |-> 0, aiColor |-> None, rnd |-> NoJitter]

NoEpisode ==
  [n |-> 0, action |-> None, fen |-> 0, depth |-> 0, aiColor |-> None,
   rnd |-> NoJitter, tt0 |-> <<>>, killers0 |-> <<>>, bestMove |-> NoMove,
   bestValue |-> 0, searched |-> <<>>, maxQPly |-> -1, hits |-> {},
   frameOk |-> TRUE, cuts |-> {}, storesOk |-> TRUE, stats0 |-> ZeroStats,
   err |-> FALSE, rootAfter |-> NewChess(0, 0), prev |-> NoSummary]

\* What a later episode keeps of an earlier one.
Summary(e) ==
  IF e.action = "move"
  THEN [fen |-> e.fen, depth |-> e.depth, aiColor |-> e.aiColor, rnd |-> e.rnd]
  ELSE e.prev

\* The episode's record; r is findBestMove's result.
EpisodeOf(n, fen, depth, aiColor, rnd, tt0, killers0, prev, r) ==
  [n |-> n, action |-> "move", fen |-> fen, depth |-> depth, aiColor |-> aiColor,
   rnd |-> rnd, tt0 |-> tt0, killers0 |-> killers0, bestMove |-> r.bestMove,
   bestValue |-> r.bestValue, searched |-> r.searched, maxQPly |-> r.st.maxQPly,
   hits |-> r.st.hits, frameOk |-> r.st.frameOk, cuts |-> r.st.cuts,
   storesOk |-> r.st.storesOk, stats0 |-> r.st.stats0, err |-> r.st.err,
   rootAfter |-> r.chess, prev |-> prev]

\* Lines 47-60; r is findBestMove's result.  A TypeError thrown by the
\* search leaves the handler at line 47, without posting.
PostBestMove(r, fen, depth, aiColor, rnd) ==
  /\ transpositionTable' = r.st.tt
  /\ killerMoves' = r.st.killers
  /\ searchStats' = StatsOf(r.st)
  /\ posted' = IF r.st.err THEN posted
               ELSE Append(posted, [bestMove |-> r.bestMove, stats |-> StatsOf(r.st)])
  /\ last' = EpisodeOf(last.n + 1, fen, depth, aiColor, rnd, transpositionTable,
                       killerMoves, Summary(last), r)

\* self.addEventListener('message', ...): one message, handled to the end.
OnMessage(fen, depth, aiColor, action, rnd) ==
  /\ last.n < MaxEpisodes
  /\ IF action = "move"
     THEN PostBestMove(findBestMove(NewChess(0, fen), depth, aiColor,
                                    WithStats(StartState(transpositionTable, killerMoves, rnd),
                                              resetSearchStats(searchStats))),
                       fen, depth, aiColor, rnd)
     ELSE /\ last' = [NoEpisode EXCEPT !.n = last.n + 1, !.action = action,
                                       !.prev = Summary(last)]
          /\ UNCHANGED <<transpositionTable, killerMoves, searchStats, posted>>

(***************************************************************************)
(* The older worker, src/ai-worker.js.                                     *)
(*                                                                         *)
(* Its minimax works on one Chess object with move()/undo().  The          *)
(* functions thread st = [killers, frameOk, err, cuts]: the killer table,  *)
(* the observation that every call returned with the object as it was      *)
(* given, whether a TypeError was thrown (a write to a killer row that     *)
(* does not exist), which ends the episode, and the observation            *)
(* <<depth, move>> of every move after which beta <= alpha held.           *)
(***************************************************************************)
MAX_DEPTH == 4

PIECE_VALUE(piece) ==
  CASE piece = "p" -> 1 [] piece = "n" -> 3 [] piece = "b" -> 3
    [] piece = "r" -> 5 [] piece = "q" -> 9 [] OTHER -> 0

scoreCapture(move) ==
  IF move.captured = None THEN 0
  ELSE PIECE_VALUE(move.captured) * 10 - PIECE_VALUE(move.piece)

MoveKey(m) == <<m.from, m.to, m.promotion>>
NoKey == MoveKey(NoMove)      \* null in a killer slot

sameMove(a, b) == b # NoKey /\ MoveKey(a) = b

\* killerMoves[depth] || [null, null]
OldKillerRow(killers, depth) ==
  IF depth \in DOMAIN killers THEN killers[depth] ELSE <<NoKey, NoKey>>

\* The comparator of orderMoves ranks: captures by score, then killer #1,
\* then killer #2, then the rest; Array.prototype.sort keeps equals in order.
OldRank(move, row) ==
  IF scoreCapture(move) # 0 THEN 1000 + scoreCapture(move)
  ELSE IF sameMove(move, row[1]) THEN 900
  ELSE IF sameMove(move, row[2]) THEN 800
  ELSE 0

oldOrderMoves(moves, depth, killers) ==
  MovesOf(SortByScore(
    [i \in DOMAIN moves |->
       [move |-> moves[i], score |-> OldRank(moves[i], OldKillerRow(killers, depth))]]))

\* evaluateBoard: material and piece-square sum from White's point of view,
\* a function of the board alone.
evaluateBoard(chess) == -Game[Fen(chess)].static

\* minimax, lines 326-327 and 345-346: killerMoves[depth][1] = ...[0];
\* killerMoves[depth][0] = m.  A row that does not exist throws.
OldRecordKiller(st, depth, m) ==
  IF depth \in DOMAIN st.killers
  THEN [st EXCEPT !.killers[depth] = <<MoveKey(m), st.killers[depth][1]>>]
  ELSE [st EXCEPT !.err = TRUE]

OldRet(value, st, chess) == [value |-> value, st |-> st, chess |-> chess]

\* minimax, lines 324 / 343: beta <= alpha held after m was searched.
OldCutoff(st, depth, m) == [st EXCEPT !.cuts = @ \cup {<<depth, m>>}]

\* minimax, lines 325-328 / 344-347: the killer table after a cutoff caused by m.
OldAfterCutoff(st, depth, m) ==
  IF m.captured = None THEN OldRecordKiller(st, depth, m) ELSE st

\* The older worker's globals as a search finds them.
OldStartState(killers) == [killers |-> killers, frameOk |-> TRUE, err |-> FALSE, cuts |-> {}]

\* A variant that leaves the move on the board.
UndoForgotten(chess) == chess
\* minimax, line 319 / 338: chessInstance.undo() after the recursive call.
UndoAfterSearch(chess) == UndoChess(chess)

OldFramed(st, chess, moved, ret) ==
  [st EXCEPT !.frameOk = @ /\ (ret = moved) /\ (UndoAfterSearch(ret) = chess)]

RECURSIVE oldMinimax(_, _, _, _, _, _)
RECURSIVE oldMinimaxLoop(_, _, _, _, _, _, _, _, _)
RECURSIVE oldMinimaxStep(_, _, _, _, _, _, _, _, _)
RECURSIVE oldMinimaxNext(_, _, _, _, _, _, _, _, _)
oldMinimax(depth, chess, alpha, beta, isMaximisingPlayer, st) ==
  IF depth = 0 \/ GameOver(chess)
  THEN IF InCheckmate(chess)
       THEN OldRet(IF isMaximisingPlayer THEN NegInf ELSE Inf, st, chess)
       ELSE IF InDraw(chess) THEN OldRet(0, st, chess)
       ELSE OldRet(evaluateBoard(chess), st, chess)
  ELSE oldMinimaxLoop(oldOrderMoves(Moves(chess), depth, st.killers), 1, depth,
                      chess, alpha, beta, isMaximisingPlayer,
                      IF isMaximisingPlayer THEN NegInf ELSE Inf, st)

\* minimax, the loop over the ordered moves from the i-th on.
oldMinimaxLoop(moves, i, depth, chess, alpha, beta, isMaximisingPlayer, best, st) ==
  IF i > Len(moves) THEN OldRet(best, st, chess)
  ELSE oldMinimaxStep(
         oldMinimax(depth - 1, MoveChess(chess, moves[i]), alpha, beta,
                    ~isMaximisingPlayer, st),
         moves, i, depth, chess, alpha, beta, isMaximisingPlayer, best)

\* minimax, lines 318-322 / 337-341; r is the recursive call's result.  A
\* TypeError thrown below ends this call too.
oldMinimaxStep(r, moves, i, depth, chess, alpha, beta, isMaximisingPlayer, best) ==
  IF r.st.err THEN OldRet(best, r.st, r.chess)
  ELSE oldMinimaxNext(moves, i, depth, UndoAfterSearch(r.chess), alpha, beta,
                      isMaximisingPlayer,
                      IF isMaximisingPlayer THEN Max(best, r.value)
                      ELSE Min(best, r.value),
                      OldFramed(r.st, chess, MoveChess(chess, moves[i]), r.chess))

\* minimax, lines 322-330 / 341-349; best is the node's value after this
\* move, alpha and beta the window before it.
oldMinimaxNext(moves, i, depth, chess, alpha, beta, isMaximisingPlayer, best, st) ==
  IF (IF isMaximisingPlayer THEN beta ELSE Min(beta, best))
        <= (IF isMaximisingPlayer THEN Max(alpha, best) ELSE alpha)
  THEN OldRet(best, OldAfterCutoff(OldCutoff(st, depth, moves[i]), depth, moves[i]),
              chess)
  ELSE oldMinimaxLoop(moves, i + 1, depth, chess,
                      IF isMaximisingPlayer THEN Max(alpha, best) ELSE alpha,
                      IF isMaximisingPlayer THEN beta ELSE Min(beta, best),
                      isMaximisingPlayer, best, st)

OldRootRet(bestMove, bestValue, st, chess, calls) ==
  [bestMove |-> bestMove, bestValue |-> bestValue, st |-> st, chess |-> chess,
   calls |-> calls]

\* minimaxRoot, lines 368-371: does val replace the best so far?
OldImproves(isWhite, val, bestValue) ==
  (isWhite /\ val >= bestValue) \/ (~isWhite /\ val <= bestValue)

\* minimaxRoot, the loop over the ordered root moves from the i-th on;
\* calls counts the minimax calls made.
RECURSIVE oldRootLoop(_, _, _, _, _, _, _, _, _)
RECURSIVE oldRootStep(_, _, _, _, _, _, _, _, _)
oldRootLoop(moves, i, depth, chess, isWhite, bestMove, bestValue, calls, st) ==
  IF i > Len(moves) THEN OldRootRet(bestMove, bestValue, st, chess, calls)
  ELSE oldRootStep(
         oldMinimax(depth - 1, MoveChess(chess, moves[i]), NegInf, Inf, ~isWhite, st),
         moves, i, depth, chess, isWhite, bestMove, bestValue, calls)

\* minimaxRoot, lines 365-371; r is minimax's result.
oldRootStep(r, moves, i, depth, chess, isWhite, bestMove, bestValue, calls) ==
  IF r.st.err THEN OldRootRet(bestMove, bestValue, r.st, r.chess, calls + 1)
  ELSE oldRootLoop(moves, i + 1, depth, UndoAfterSearch(r.chess), isWhite,
                   IF OldImproves(isWhite, r.value, bestValue) THEN moves[i]
                   ELSE bestMove,
                   IF OldImproves(isWhite, r.value, bestValue) THEN r.value
                   ELSE bestValue,
                   calls + 1,
                   OldFramed(r.st, chess, MoveChess(chess, moves[i]), r.chess))

\* minimaxRoot, lines 375-377: the move handed back.
NullReply == [from |-> None, to |-> None, promotion |-> None]
OldReply(bestMove) ==
  IF bestMove # NoMove
  THEN [from |-> bestMove.from, to |-> bestMove.to, promotion |-> bestMove.promotion]
  ELSE NullReply

\* minimaxRoot, the search; [bestMove, bestValue, st, chess, calls].
minimaxRoot(depth, fen, aiWorkerColor, killers) ==
  oldRootLoop(oldOrderMoves(Moves(NewChess(0, fen)), depth, killers), 1, depth,
              NewChess(0, fen), aiWorkerColor = "white", NoMove,
              IF aiWorkerColor = "white" THEN NegInf ELSE Inf, 0,
              OldStartState(killers))

(***************************************************************************)
(* The older worker's opening book and message handler.                    *)
(***************************************************************************)
\* The FEN text of a position: <<piece placement, side to move, the rest>>.
\* Position 1 is the position after 1.e4 and position 18 the Fool's Mate
\* position of the book; the other placements are named by their position.
Placement(p) ==
  CASE p = 1 -> "rnbqkbnr/pppppppp/8/8/4P3/8/PPPP1PPP/RNBQKBNR"
    [] p = 18 -> "rnbqkbnr/pppp1ppp/4p3/8/6P1/5P2/PPPP1PPP/RNBQKBNR"
    [] OTHER -> ToString(p)

FenText(p) == <<Placement(p), Game[p].turn, ToString(p)>>

\* A variant that keeps the piece placement and the last field.
normalizeFenWrongField(fen) == <<fen[1], fen[3]>>
\* normalizeFen: parts[0] + ' ' + parts[1]
normalizeFen(fen) == <<fen[1], fen[2]>>

BookMove(from, to) == [from |-> from, to |-> to]

\* The entries of openingBook whose positions the game graph holds.
OpeningBookAtStart ==
  (<<"rnbqkbnr/pppppppp/8/8/4P3/8/PPPP1PPP/RNBQKBNR", "b">> :>
      << BookMove("e7", "e5"), BookMove("c7", "c5"),
         BookMove("e7", "e6"), BookMove("g8", "f6") >>)
  @@
  (<<"rnbqkbnr/pppp1ppp/4p3/8/6P1/5P2/PPPP1PPP/RNBQKBNR", "b">> :>
      << BookMove("d8", "h4") >>)

\* An array: its identity and its elements.  slice() makes a new array.
ArrayOf(id, items) == [id |-> id, items |-> items]
\* A variant that hands back the array itself instead of a copy.
sliceSameArray(array) == array
\* bookMoves.slice(): a new array with the same elements.
slice(array) == ArrayOf(<<"slice">> \o array.id, array.items)

Swap(items, a, b) ==
  [k \in DOMAIN items |-> IF k = a THEN items[b] ELSE IF k = b THEN items[a] ELSE items[k]]

\* shuffle: Fisher-Yates from index i (0-based) down to 1; js[i] is
\* Math.floor(Math.random() * (i + 1)).
RECURSIVE shuffleFrom(_, _, _)
shuffleFrom(items, i, js) ==
  IF i <= 0 THEN items
  ELSE shuffleFrom(Swap(items, i + 1, js[i] + 1), i - 1, js)

shuffle(array, js) == ArrayOf(array.id, shuffleFrom(array.items, Len(array.items) - 1, js))

\* The draws a shuffle of n elements can make.
ShuffleDraws(n) == {js \in [1..(n - 1) -> 0..(n - 1)] : \A i \in 1..(n - 1) : js[i] <= i}

BookHit(book, fen) ==
  LET key == normalizeFen(FenText(fen))
  IN key \in DOMAIN book /\ Len(book[key]) > 0

\* The book after a call changed the array `array` in place.
BookAfter(book, array) ==
  [k \in DOMAIN book |-> IF array.id = k THEN array.items ELSE book[k]]

OldNoEpisode ==
  [n |-> 0, fen |-> 0, depth |-> 0, aiWorkerColor |-> None, book |-> FALSE,
   searched |-> FALSE, calls |-> 0, move |-> NullReply, frameOk |-> TRUE,
   rootAfter |-> NewChess(0, 0), err |-> FALSE, killers0 |-> <<>>, cuts |-> {}]

\* self.onmessage, the opening-book branch.
OldBookReply(fen, depth, aiWorkerColor) ==
  /\ oldLast.n < MaxEpisodes
  /\ BookHit(openingBook, fen)
  /\ LET key == normalizeFen(FenText(fen))
         bookMoves == ArrayOf(key, openingBook[key])
     IN \E js \in ShuffleDraws(Len(bookMoves.items)) :
          LET shuffled == shuffle(slice(bookMoves), js)
          IN /\ oldPosted' = Append(oldPosted, shuffled.items[1])
             /\ openingBook' = BookAfter(openingBook, shuffled)
             /\ oldLast' = [OldNoEpisode EXCEPT !.n = oldLast.n + 1, !.fen = fen,
                              !.depth = depth, !.aiWorkerColor = aiWorkerColor,
                              !.book = TRUE, !.move = shuffled.items[1]]
  /\ UNCHANGED oldKillers

\* Line 389; r is minimaxRoot's search.  A TypeError thrown by the search
\* leaves the handler without posting.
OldPostSearch(r, fen, depth, aiWorkerColor) ==
  /\ oldKillers' = r.st.killers
  /\ oldPosted' = IF r.st.err THEN oldPosted
                  ELSE Append(oldPosted, OldReply(r.bestMove))
  /\ oldLast' = [n |-> oldLast.n + 1, fen |-> fen, depth |-> depth,
                 aiWorkerColor |-> aiWorkerColor, book |-> FALSE,
                 searched |-> TRUE, calls |-> r.calls,
                 move |-> OldReply(r.bestMove), frameOk |-> r.st.frameOk,
                 rootAfter |-> r.chess, err |-> r.st.err, killers0 |-> oldKillers,
                 cuts |-> r.st.cuts]

\* self.onmessage, the search branch.
OldSearchReply(fen, depth, aiWorkerColor) ==
  /\ oldLast.n < MaxEpisodes
  /\ ~BookHit(openingBook, fen)
  /\ OldPostSearch(minimaxRoot(depth, fen, aiWorkerColor, oldKillers),
                   fen, depth, aiWorkerColor)
  /\ UNCHANGED openingBook


(***************************************************************************)
(* evaluatePosition on a board, src/unnamed/part_000 lines 311-555.        *)
(*                                                                         *)
(* A position is what chess.js answers for it: board() as rows 0..7 (row 0 *)
(* is rank 8) by columns 0..7, turn(), in_checkmate(), in_draw(), and the  *)
(* numbers of legal moves of the side to move and of the same position     *)
(* with the turn toggled.  Game[p].static above stands for BoardScore of   *)
(* the board of position p.                                                *)
(***************************************************************************)
Piece(type, color) == [type |-> type, color |-> color]
Empty == Piece(None, None)        \* null on the board

Squares == (0..7) \X (0..7)

evalPieceValues(type) ==
  CASE type = "p" -> 100 [] type = "n" -> 320 [] type = "b" -> 330
    [] type = "r" -> 500 [] type = "q" -> 900 [] type = "k" -> 20000

pawnPositionBonus == <<
  << 0,  0,  0,  0,  0,  0,  0,  0>>,
  <<50, 50, 50, 50, 50, 50, 50, 50>>,
  <<10, 10, 20, 30, 30, 20, 10, 10>>,
  << 5,  5, 10, 25, 25, 10,  5,  5>>,
  << 0,  0,  0, 20, 20,  0,  0,  0>>,
  << 5, -5,-10,  0,  0,-10, -5,  5>>,
  << 5, 10, 10,-20,-20, 10, 10,  5>>,
  << 0,  0,  0,  0,  0,  0,  0,  0>> >>

knightPositionBonus == <<
  <<-50,-40,-30,-30,-30,-30,-40,-50>>,
  <<-40,-20,  0,  0,  0,  0,-20,-40>>,
  <<-30,  0, 10, 15, 15, 10,  0,-30>>,
  <<-30,  5, 15, 20, 20, 15,  5,-30>>,
  <<-30,  0, 15, 20, 20, 15,  0,-30>>,
  <<-30,  5, 10, 15, 15, 10,  5,-30>>,
  <<-40,-20,  0,  5,  5,  0,-20,-40>>,
  <<-50,-40,-30,-30,-30,-30,-40,-50>> >>

bishopPositionBonus == <<
  <<-20,-10,-10,-10,-10,-10,-10,-20>>,
  <<-10,  0,  0,  0,  0,  0,  0,-10>>,
  <<-10,  0, 10, 10, 10, 10,  0,-10>>,
  <<-10,  5,  5, 10, 10,  5,  5,-10>>,
  <<-10,  0, 10, 10, 10, 10,  0,-10>>,
  <<-10, 10, 10, 10, 10, 10, 10,-10>>,
  <<-10,  5,  0,  0,  0,  0,  5,-10>>,
  <<-20,-10,-10,-10,-10,-10,-10,-20>> >>

rookPositionBonus == <<
  << 0,  0,  0,  0,  0,  0,  0,  0>>,
  << 5, 10, 10, 10, 10, 10, 10,  5>>,
  <<-5,  0,  0,  0,  0,  0,  0, -5>>,
  <<-5,  0,  0,  0,  0,  0,  0, -5>>,
  <<-5,  0,  0,  0,  0,  0,  0, -5>>,
  <<-5,  0,  0,  0,  0,  0,  0, -5>>,
  <<-5,  0,  0,  0,  0,  0,  0, -5>>,
  << 0,  0,  0,  5,  5,  0,  0,  0>> >>

queenPositionBonus == <<
  <<-20,-10,-10, -5, -5,-10,-10,-20>>,
  <<-10,  0,  0,  0,  0,  0,  0,-10>>,
  <<-10,  0,  5,  5,  5,  5,  0,-10>>,
  << -5,  0,  5,  5,  5,  5,  0, -5>>,
  <<  0,  0,  5,  5,  5,  5,  0, -5>>,
  <<-10,  5,  5,  5,  5,  5,  0,-10>>,
  <<-10,  0,  5,  0,  0,  0,  0,-10>>,
  <<-20,-10,-10, -5, -5,-10,-10,-20>> >>

kingMiddlegamePositionBonus == <<
  <<-30,-40,-40,-50,-50,-40,-40,-30>>,
  <<-30,-40,-40,-50,-50,-40,-40,-30>>,
  <<-30,-40,-40,-50,-50,-40,-40,-30>>,
  <<-30,-40,-40,-50,-50,-40,-40,-30>>,
  <<-20,-30,-30,-40,-40,-30,-30,-20>>,
  <<-10,-20,-20,-20,-20,-20,-20,-10>>,
  << 20, 20,  0,  0,  0,  0, 20, 20>>,
  << 20, 30, 10,  0,  0, 10, 30, 20>> >>

\* The table of a piece type (lines 424-441).
BonusTable(type) ==
  CASE type = "p" -> pawnPositionBonus [] type = "n" -> knightPositionBonus
    [] type = "b" -> bishopPositionBonus [] type = "r" -> rookPositionBonus
    [] type = "q" -> queenPositionBonus [] type = "k" -> kingMiddlegamePositionBonus

\* A variant that reads the tables for Black without turning them over.
BonusRowUnflipped(color, i) == i
\* Lines 425-440: table[i][j] for White, table[7-i][j] for Black.
BonusRow(color, i) == IF color = "w" THEN i ELSE 7 - i

positionBonus(piece, i, j) == BonusTable(piece.type)[BonusRow(piece.color, i) + 1][j + 1]

\* score += x for a black piece, score -= x for a white one.
Signed(color, x) == IF color = "b" THEN x ELSE -x

\* The sum of f over its domain 0..n.
RECURSIVE SumTo(_, _)
SumTo(f, n) == IF n < 0 THEN 0 ELSE f[n] + SumTo(f, n - 1)

\* Square number k of the scan for (let i ...) for (let j ...).
RowOf(k) == k \div 8
ColOf(k) == k % 8

\* Lines 405-451: material.
MaterialScore(board) ==
  SumTo([k \in 0..63 |->
           IF board[<<RowOf(k), ColOf(k)>>] = Empty THEN 0
           ELSE Signed(board[<<RowOf(k), ColOf(k)>>].color,
                       evalPieceValues(board[<<RowOf(k), ColOf(k)>>].type))], 63)

\* Lines 421-448: piece-square bonuses.
PositionBonusScore(board) ==
  SumTo([k \in 0..63 |->
           IF board[<<RowOf(k), ColOf(k)>>] = Empty THEN 0
           ELSE Signed(board[<<RowOf(k), ColOf(k)>>].color,
                       positionBonus(board[<<RowOf(k), ColOf(k)>>], RowOf(k), ColOf(k)))], 63)

CountOf(board, type, color) ==
  Cardinality({sq \in Squares : board[sq] = Piece(type, color)})

\* Lines 453-455.
BishopPairScore(board) ==
  (IF CountOf(board, "b", "w") >= 2 THEN -50 ELSE 0)
  + (IF CountOf(board, "b", "b") >= 2 THEN 50 ELSE 0)

\* Lines 457-477.
MobilityScore(turn, currentMoves, opposingMoves) ==
  IF turn = "b" THEN (currentMoves - opposingMoves) * 10
  ELSE -((currentMoves - opposingMoves) * 10)

\* Lines 487-495: the king's square, the last one the scan finds; {} if none.
KingPos(board, color) ==
  LET found == {k \in 0..63 : board[<<RowOf(k), ColOf(k)>>] = Piece("k", color)}
  IN IF found = {} THEN {}
     ELSE {<<RowOf(SetMax(found)), ColOf(SetMax(found))>>}

\* Lines 498-518: the pieces of the king's colour next to it.
KingProtection(board, color) ==
  Cardinality({sq \in Squares :
     /\ \E kp \in KingPos(board, color) :
          /\ sq[1] >= kp[1] - 1 /\ sq[1] <= kp[1] + 1
          /\ sq[2] >= kp[2] - 1 /\ sq[2] <= kp[2] + 1
     /\ board[sq] # Empty
     /\ board[sq].color = color
     /\ board[sq].type # "k"})

\* Lines 520-521.
KingSafetyScore(board) ==
  KingProtection(board, "b") * 10 - KingProtection(board, "w") * 10

\* Lines 530-543: the pawns of one colour in column j.
PawnsInCol(board, color, j) ==
  Cardinality({i \in 0..7 : board[<<i, j>>] = Piece("p", color)})

\* Lines 546-549.
DoubledPawnScore(board) ==
  SumTo([j \in 0..7 |->
           (IF PawnsInCol(board, "w", j) > 1 THEN 20 * (PawnsInCol(board, "w", j) - 1) ELSE 0)
           - (IF PawnsInCol(board, "b", j) > 1 THEN 20 * (PawnsInCol(board, "b", j) - 1) ELSE 0)],
        7)

\* Lines 320-549: the score before the jitter.
BoardScore(position) ==
  MaterialScore(position.board) + PositionBonusScore(position.board)
  + BishopPairScore(position.board)
  + MobilityScore(position.turn, position.currentMoves, position.opposingMoves)
  + KingSafetyScore(position.board) + DoubledPawnScore(position.board)

\* evaluatePosition; digit is Math.floor(Math.random() * 10).
evaluatePositionOnBoard(position, digit) ==
  IF position.checkmate THEN MateScore(position.turn)
  ELSE IF position.draw THEN 0
  ELSE BoardScore(position) + digit - 5

(***************************************************************************)
(* The positions evaluatePosition is applied to: both kings and up to      *)
(* MaxExtraPieces further pieces.                                          *)
(***************************************************************************)
Placed(i, j, type, color) == [i |-> i, j |-> j, piece |-> Piece(type, color)]

KingSets ==
  { {Placed(7, 4, "k", "w"), Placed(0, 4, "k", "b")},
    {Placed(7, 6, "k", "w"), Placed(0, 4, "k", "b")},
    {Placed(7, 4, "k", "w"), Placed(1, 3, "k", "b")} }

ExtraPieces ==
  { Placed(4, 3, "p", "w"), Placed(5, 3, "p", "w"), Placed(3, 4, "p", "b"),
    Placed(1, 4, "p", "b"), Placed(6, 0, "p", "b"),
    Placed(7, 2, "b", "w"), Placed(7, 5, "b", "w"), Placed(0, 2, "b", "b"),
    Placed(4, 1, "b", "b"),
    Placed(7, 3, "q", "w"), Placed(3, 0, "q", "w"), Placed(4, 0, "q", "b"),
    Placed(5, 5, "n", "w"), Placed(2, 5, "n", "b"),
    Placed(7, 0, "r", "w"), Placed(1, 7, "r", "b") }

BoardOf(placed) ==
  [sq \in Squares |->
     IF \E x \in placed : <<x.i, x.j>> = sq
     THEN (CHOOSE x \in placed : <<x.i, x.j>> = sq).piece
     ELSE Empty]

Boards ==
  {BoardOf(ks \cup ex) :
     ks \in KingSets,
     ex \in {e \in SUBSET ExtraPieces : Cardinality(e) <= MaxExtraPieces}}

EvalPosition(board, turn, checkmate, draw, currentMoves, opposingMoves) ==
  [board |-> board, turn |-> turn, checkmate |-> checkmate, draw |-> draw,
   currentMoves |-> currentMoves, opposingMoves |-> opposingMoves]

\* What moves().length answers for the position and for the toggled turn.
MoveCounts == {<<20, 20>>, <<3, 7>>}

EvalInputs ==
  {EvalPosition(b, t, FALSE, FALSE, mc[1], mc[2]) :
     b \in Boards, t \in {"w", "b"}, mc \in MoveCounts}
  \cup {EvalPosition(b, t, TRUE, FALSE, 0, 5) : b \in Boards, t \in {"w", "b"}}
  \cup {EvalPosition(b, t, FALSE, TRUE, 0, 0) : b \in Boards, t \in {"w", "b"}}

NoPosition == EvalPosition(BoardOf({}), None, FALSE, FALSE, 0, 0)
NoScore == [done |-> FALSE, score |-> 0, digit |-> 5]

\* Line 552: the values of Math.floor(Math.random() * 10).
RandomDigits == 0..9

\* evaluatePosition is called on the position at hand.
Evaluate ==
  /\ evalIn # NoPosition
  /\ ~evalOut.done
  /\ \E digit \in RandomDigits :
       evalOut' = [done |-> TRUE, score |-> evaluatePositionOnBoard(evalIn, digit),
                   digit |-> digit]
  /\ UNCHANGED <<evalIn, newVars, oldVars, sfVars>>

(***************************************************************************)
(* The engine integration, src/stockfish-integration.js.                   *)
(*                                                                         *)
(* The engine worker is outside the program: it is represented by the      *)
(* commands posted to it and the lines it emits.  It answers 'isready'     *)
(* with 'readyok' and each 'go' with one 'bestmove' line, in order.        *)
(***************************************************************************)
Cmd(name, arg) == [name |-> name, arg |-> arg]
Line(kind, token) == [kind |-> kind, token |-> token]

InitListener == [kind |-> "init", id |-> 0]
RequestListener(id) == [kind |-> "request", id |-> id]

\* /bestmove\s+(\w+)/ on 'bestmove <token> ...': the word matched, or null
\* when the token does not begin with a word character.
WordTokens == {"e2e4", "g8f6"}
MatchBestMove(token) == IF token \in WordTokens THEN token ELSE None

\* initStockfishWorker, lines 101-106.
InitCommands ==
  << Cmd("uci", ""), Cmd("isready", ""),
     Cmd("setoption name Skill Level value", "10"),
     Cmd("setoption name Threads value", "2") >>

\* requestStockfishMove, lines 130-150.
skillLevel(difficulty) ==
  CASE difficulty = "easy" -> "5" [] difficulty = "medium" -> "10"
    [] difficulty = "hard" -> "15" [] difficulty = "expert" -> "20" [] OTHER -> "10"

moveTime(difficulty) ==
  CASE difficulty = "easy" -> "500" [] difficulty = "medium" -> "1000"
    [] difficulty = "hard" -> "1500" [] difficulty = "expert" -> "2000" [] OTHER -> "1000"

\* Remove the first occurrence of x from the sequence s, if any.
RECURSIVE RemoveFirst(_, _)
RemoveFirst(s, x) ==
  IF s = <<>> THEN <<>>
  ELSE IF Head(s) = x THEN Tail(s)
  ELSE <<Head(s)>> \o RemoveFirst(Tail(s), x)

Member(s, x) == \E k \in DOMAIN s : s[k] = x

\* A variant of removeEventListener that leaves the listener registered.
removeEventListenerIgnored(registered, listener) == registered
\* stockfish.removeEventListener('message', messageHandler), line 165.
removeEventListener(registered, listener) == RemoveFirst(registered, listener)

\* callback(bestMove), line 166.  The invocation is recorded with the
\* request it belongs to and with whether that request's listener was
\* still registered when the callback ran.
Callback(listener, bestMove, w) ==
  [w EXCEPT !.callbacks = Append(@, [id |-> listener.id, bestMove |-> bestMove,
                                     listening |-> Member(w.listeners, listener)])]

\* One listener handles one line; w is [ready, listeners, callbacks].
\* Lines 76-98 (the listener of initStockfishWorker) and 156-169 (the
\* listener of one request).
Handle(listener, line, w) ==
  IF listener.kind = "init"
  THEN IF line.kind = "readyok" THEN [w EXCEPT !.ready = TRUE] ELSE w
  ELSE IF line.kind = "bestmove" /\ MatchBestMove(line.token) # None
       THEN Callback(listener, MatchBestMove(line.token),
                     [w EXCEPT !.listeners = removeEventListener(@, listener)])
       ELSE w

\* The worker dispatches a line to the listeners registered when the
\* dispatch began, in order; one removed meanwhile is not called.
RECURSIVE Dispatch(_, _, _, _)
Dispatch(snapshot, k, line, w) ==
  IF k > Len(snapshot) THEN w
  ELSE Dispatch(snapshot, k + 1, line,
                IF Member(w.listeners, snapshot[k]) THEN Handle(snapshot[k], line, w)
                ELSE w)

\* The commands of one kind posted so far, and the lines of one kind emitted.
RECURSIVE CountCmds(_, _)
CountCmds(cmds, name) ==
  IF cmds = <<>> THEN 0
  ELSE (IF Head(cmds).name = name THEN 1 ELSE 0) + CountCmds(Tail(cmds), name)

RECURSIVE CountLines(_, _)
CountLines(lines, kind) ==
  IF lines = <<>> THEN 0
  ELSE (IF Head(lines).kind = kind THEN 1 ELSE 0) + CountLines(Tail(lines), kind)

\* The positions of the 'position fen' commands, in order.
RECURSIVE PositionsSent(_)
PositionsSent(cmds) ==
  IF cmds = <<>> THEN <<>>
  ELSE (IF Head(cmds).name = "position fen" THEN <<Head(cmds).arg>> ELSE <<>>)
       \o PositionsSent(Tail(cmds))

\* The positions requests carry, and the engine's choice for each: the
\* third has no legal move, and UCI answers it 'bestmove (none)'.
SfFens == {"fenA", "fenB", "fenMated"}
EngineChoice(fen) ==
  CASE fen = "fenA" -> "e2e4" [] fen = "fenB" -> "g8f6" [] OTHER -> "(none)"
Difficulties == {"easy", "expert", "unset"}

\* window 'load' + 5 s: initStockfishInBackground, lines 21-52.
InitStockfishInBackground ==
  /\ script = None
  /\ ~stockfishLoaded
  /\ script' = "loading"
  /\ UNCHANGED <<stockfish, stockfishReady, stockfishLoaded, listeners, engineIn,
                 engineOut, callbacks, requests, newVars, oldVars, evalVars>>

\* script.onload with initStockfishWorker running to its end, lines 36-42, 58-108.
ScriptLoaded ==
  /\ script = "loading"
  /\ script' = "loaded"
  /\ stockfishLoaded' = TRUE
  /\ stockfish' = "worker"
  /\ listeners' = Append(listeners, InitListener)
  /\ engineIn' = engineIn \o InitCommands
  /\ UNCHANGED <<stockfishReady, engineOut, callbacks, requests,
                 newVars, oldVars, evalVars>>

\* script.onload with new Worker(...) throwing: the catch of line 109.
WorkerFailed ==
  /\ script = "loading"
  /\ script' = "loaded"
  /\ stockfishLoaded' = TRUE
  /\ stockfish' = None
  /\ UNCHANGED <<stockfishReady, listeners, engineIn, engineOut, callbacks, requests,
                 newVars, oldVars, evalVars>>

\* script.onerror, lines 44-46.
ScriptFailed ==
  /\ script = "loading"
  /\ script' = "failed"
  /\ UNCHANGED <<stockfish, stockfishReady, stockfishLoaded, listeners, engineIn,
                 engineOut, callbacks, requests, newVars, oldVars, evalVars>>

\* The engine emits a line and the worker's listeners handle it.
Emit(line) ==
  /\ Len(engineOut) < MaxEngineLines
  /\ engineOut' = Append(engineOut, line)
  /\ stockfishReady' = Dispatch(listeners, 1, line,
        [ready |-> stockfishReady, listeners |-> listeners, callbacks |-> callbacks]).ready
  /\ listeners' = Dispatch(listeners, 1, line,
        [ready |-> stockfishReady, listeners |-> listeners, callbacks |-> callbacks]).listeners
  /\ callbacks' = Dispatch(listeners, 1, line,
        [ready |-> stockfishReady, listeners |-> listeners, callbacks |-> callbacks]).callbacks
  /\ UNCHANGED <<stockfish, stockfishLoaded, script, engineIn, requests,
                 newVars, oldVars, evalVars>>

\* The engine answers 'isready'.
EngineReady ==
  /\ CountLines(engineOut, "readyok") < CountCmds(engineIn, "isready")
  /\ Emit(Line("readyok", ""))

\* The engine prints a line that is neither 'readyok' nor 'bestmove'.
EngineInfo ==
  /\ CountCmds(engineIn, "uci") > 0
  /\ CountLines(engineOut, "info") < 1
  /\ Emit(Line("info", ""))

\* The engine finishes the oldest search not yet answered.
EngineBestMove ==
  /\ CountLines(engineOut, "bestmove") < CountCmds(engineIn, "go movetime")
  /\ Emit(Line("bestmove",
               EngineChoice(PositionsSent(engineIn)[CountLines(engineOut, "bestmove") + 1])))

\* A variant of the guard of line 124 that does not wait for 'readyok'.
NotReadyIgnoresHandshake(worker, ready) == worker = None
\* requestStockfishMove, line 124: !stockfish || !stockfishReady
NotReady(worker, ready) == worker = None \/ ~ready

\* requestStockfishMove(fen, difficulty, callback); the callback is named by
\* the number of the call.
RequestStockfishMove(fen, difficulty) ==
  /\ Len(requests) < MaxRequests
  /\ IF NotReady(stockfish, stockfishReady)
     THEN /\ requests' = Append(requests, [id |-> Len(requests) + 1, fen |-> fen,
                                           returned |-> FALSE])
          /\ UNCHANGED <<listeners, engineIn>>
     ELSE /\ engineIn' = engineIn \o
               << Cmd("setoption name Skill Level value", skillLevel(difficulty)),
                  Cmd("position fen", fen),
                  Cmd("go movetime", moveTime(difficulty)) >>
          /\ listeners' = Append(listeners, RequestListener(Len(requests) + 1))
          /\ requests' = Append(requests, [id |-> Len(requests) + 1, fen |-> fen,
                                           returned |-> TRUE])
  /\ UNCHANGED <<stockfish, stockfishReady, stockfishLoaded, script, engineOut,
                 callbacks, newVars, oldVars, evalVars>>

RequestMove ==
  \E fen \in SfFens, difficulty \in Difficulties : RequestStockfishMove(fen, difficulty)

(***************************************************************************)
(* The specification: each worker handles up to MaxEpisodes messages.      *)
(***************************************************************************)
\* The workers and the page as they start.
WorkersStart ==
  /\ transpositionTable = <<>>
  /\ killerMoves = [ply \in 0..(KillerRows - 1) |-> <<None, None>>]
  /\ searchStats = ZeroStats
  /\ posted = <<>>
  /\ last = NoEpisode
  /\ oldKillers = [d \in 0..(MAX_DEPTH - 1) |-> <<NoKey, NoKey>>]
  /\ oldPosted = <<>>
  /\ openingBook = OpeningBookAtStart
  /\ oldLast = OldNoEpisode
  /\ stockfish = None
  /\ stockfishReady = FALSE
  /\ stockfishLoaded = FALSE
  /\ script = None
  /\ listeners = <<>>
  /\ engineIn = <<>>
  /\ engineOut = <<>>
  /\ callbacks = <<>>
  /\ requests = <<>>

Init ==
  /\ WorkersStart
  /\ evalIn = NoPosition
  /\ evalOut = NoScore

\* A position is at hand for evaluatePosition.
InitEval ==
  /\ WorkersStart
  /\ evalIn \in EvalInputs
  /\ evalOut = NoScore

\* A message asking for a move reaches the search worker.
MoveRequest ==
  /\ \E fen \in Roots, depth \in Depths, aiColor \in Colors, rnd \in RandomStreams :
       OnMessage(fen, depth, aiColor, "move", rnd)
  /\ UNCHANGED <<oldVars, evalVars, sfVars>>

\* A message with another action reaches the search worker; the handler
\* reads none of its other fields.
OtherRequest ==
  /\ \E action \in MessageActions \ {"move"} :
       OnMessage(1, 1, "black", action, NoJitter)
  /\ UNCHANGED <<oldVars, evalVars, sfVars>>

\* A message reaches the older worker: answered from the book ...
OldBookRequest ==
  /\ \E fen \in Roots, depth \in Depths, aiWorkerColor \in Colors :
       OldBookReply(fen, depth, aiWorkerColor)
  /\ UNCHANGED <<newVars, evalVars, sfVars>>

\* ... or by a search.
OldSearchRequest ==
  /\ \E fen \in Roots, depth \in Depths, aiWorkerColor \in Colors :
       OldSearchReply(fen, depth, aiWorkerColor)
  /\ UNCHANGED <<newVars, evalVars, sfVars>>

NextNew == MoveRequest \/ OtherRequest
NextOld == OldBookRequest \/ OldSearchRequest

\* The search worker alone.
Spec == Init /\ [][NextNew]_vars

\* The older worker alone.
SpecOld == Init /\ [][NextOld]_vars

\* Both workers, handling up to MaxEpisodes messages between them.
MessagesLeft == last.n + oldLast.n < MaxEpisodes
NextBoth ==
  \/ MessagesLeft /\ MoveRequest
  \/ MessagesLeft /\ OtherRequest
  \/ MessagesLeft /\ OldBookRequest
  \/ MessagesLeft /\ OldSearchRequest
SpecBoth == Init /\ [][NextBoth]_vars

\* Messages that ask for a deep search: the handlers accept any depth.  The
\* search worker gets depths one and two above the rows of its killer table
\* (the largest ply that orders moves is depth - 2), on the roots and on the
\* head of the long line; the older worker gets depths from MAX_DEPTH on.
DeepRoots == Roots \cup {Len(ShortLines) + 1}
DeepDepths == {KillerRows + 1, KillerRows + 2}
OldDeepDepths == {MAX_DEPTH, MAX_DEPTH + 1, MAX_DEPTH + 2}

DeepMoveRequest ==
  /\ \E fen \in DeepRoots, depth \in DeepDepths, aiColor \in Colors :
       OnMessage(fen, depth, aiColor, "move", NoJitter)
  /\ UNCHANGED <<oldVars, evalVars, sfVars>>

OldDeepRequest ==
  /\ \E fen \in Roots, depth \in OldDeepDepths, aiWorkerColor \in Colors :
       OldSearchReply(fen, depth, aiWorkerColor)
  /\ UNCHANGED <<newVars, evalVars, sfVars>>

NextDeep ==
  \/ MessagesLeft /\ DeepMoveRequest
  \/ MessagesLeft /\ OldDeepRequest
SpecDeep == Init /\ [][NextDeep]_vars

\* evaluatePosition as a function of the position.
SpecEval == InitEval /\ [][Evaluate]_vars

\* The engine integration.
NextStockfish ==
  \/ InitStockfishInBackground
  \/ ScriptLoaded
  \/ WorkerFailed
  \/ ScriptFailed
  \/ EngineReady
  \/ EngineInfo
  \/ EngineBestMove
  \/ RequestMove
SpecStockfish == Init /\ [][NextStockfish]_vars

(***************************************************************************)
(* Reference definitions for the properties.                               *)
(***************************************************************************)
EmptyKillers == [ply \in 0..(KillerRows - 1) |-> <<None, None>>]


\* The score of a leaf: quiescenceSearch under the full window, no jitter.
LeafScore(fen) ==
  quiescenceSearch(NewChess(0, fen), NegInf, Inf, 0, 3,
                   StartState(<<>>, EmptyKillers, NoJitter)).value

\* Plain minimax over the tree below fen: no window, no tables.
RECURSIVE FullMinimax(_, _, _)
FullMinimax(fen, depth, isMaximizing) ==
  IF depth <= 0 \/ Game[fen].mate \/ Game[fen].draw THEN LeafScore(fen)
  ELSE LET vals == {FullMinimax(Game[fen].moves[i].next, depth - 1, ~isMaximizing) :
                      i \in DOMAIN Game[fen].moves}
       IN IF isMaximizing THEN SetMax(vals) ELSE SetMin(vals)

\* The value plain minimax gives root move m, and the best over the root moves.
FullMoveValue(m, depth, isMaximizing) == FullMinimax(m.next, depth - 1, ~isMaximizing)
FullRootValue(fen, depth, isMaximizing) ==
  LET vals == {FullMoveValue(Game[fen].moves[i], depth, isMaximizing) :
                 i \in DOMAIN Game[fen].moves}
  IN IF isMaximizing THEN SetMax(vals) ELSE SetMin(vals)

Searched == last.action = "move"
IsMax == last.aiColor = "black"
\* The message names the side that is to move as the AI's colour.
OwnTurn(fen, aiColor) == (aiColor = "black") <=> (Game[fen].turn = "b")

(***************************************************************************)
(* C1.  For a fixed position and depth, with jitter disabled and an empty  *)
(* transposition table at the start, the move findBestMove returns has the *)
(* value of the best move of an unpruned full minimax over the same tree   *)
(* with the same leaf scores.                                              *)
(***************************************************************************)
C1_PrunedEqualsFullMinimax ==
  (/\ Searched
   /\ DOMAIN last.tt0 = {}
   /\ last.rnd = NoJitter
   /\ OwnTurn(last.fen, last.aiColor)
   /\ last.bestMove # NoMove)
  => FullMoveValue(last.bestMove, last.depth, IsMax)
       = FullRootValue(last.fen, last.depth, IsMax)

(***************************************************************************)
(* C2.  evaluatePosition on a checkmated position returns a score of       *)
(* magnitude 10000 that favours the side that delivered mate in the        *)
(* evaluation's colour convention (black's advantage is positive): +10000  *)
(* when white is mated, -10000 when black is mated.                        *)
(***************************************************************************)
C2_MateScoreFavoursMatingSide ==
  \A p \in Positions :
    Game[p].mate =>
      evaluatePosition(NewChess(0, p),
                       StartState(transpositionTable, killerMoves, last.rnd)).value
        = (IF Game[p].turn = "w" THEN 10000 ELSE -10000)

(***************************************************************************)
(* C3.  For a root position with exactly one legal move, findBestMove      *)
(* returns that move at every depth >= 1, whatever the tables left by      *)
(* earlier episodes hold.                                                  *)
(***************************************************************************)
SingleMoveRoot == Searched /\ Len(Game[last.fen].moves) = 1

NoMoveRoot == Searched /\ Game[last.fen].moves = <<>>
OldNoMoveRoot == oldLast.searched /\ Game[oldLast.fen].moves = <<>>

C4_NoLegalMoveReturnsNull ==
  /\ NoMoveRoot =>
       /\ last.bestMove = NoMove
       /\ last.searched = <<>>
       /\ posted[Len(posted)].bestMove = NoMove
       /\ posted[Len(posted)].stats.nodesSearched = 0
       /\ transpositionTable = last.tt0
  /\ OldNoMoveRoot =>
       /\ oldLast.move = NullReply
       /\ oldLast.calls = 0
       /\ ~oldLast.err
       /\ oldPosted[Len(oldPosted)] = NullReply

C4_Witness ==
  /\ NoMoveRoot /\ Game[last.fen].mate /\ last.bestMove = NoMove
  /\ OldNoMoveRoot /\ Game[oldLast.fen].draw /\ oldLast.move = NullReply

(***************************************************************************)
(* C5.  minimax returns a cached transposition value only when the stored  *)
(* entry's depth is >= the remaining depth of the call; an entry stored    *)
(* with a smaller depth is never returned as the node's value.             *)
(***************************************************************************)
C5_CachedValueOnlyIfDeepEnough ==
  \A h \in last.hits : h[2] >= h[3]

C5_Witness ==
  /\ Searched
  /\ last.hits # {}
  /\ \E k \in DOMAIN last.tt0 :
       /\ transpositionTable[k].depth > last.tt0[k].depth
       /\ \A h \in last.hits : h[1] # k

(***************************************************************************)
(* C6.  A search episode that starts with a table populated by an earlier, *)
(* shallower search returns the same best move and value as the same       *)
(* search started with an empty table (jitter disabled).                   *)
(***************************************************************************)
FreshSearch ==
  findBestMove(NewChess(0, last.fen), last.depth, last.aiColor,
               StartState(<<>>, last.killers0, last.rnd))

\* m is as good as the best root move under plain minimax.
BestByFullMinimax(m) ==
  FullMoveValue(m, last.depth, IsMax) = FullRootValue(last.fen, last.depth, IsMax)

\* The weaker reading: where the search from an empty table decides right,
\* the search from the populated table decides right too.
C6_StaleTableSameDecision ==
  (/\ Searched
   /\ last.rnd = NoJitter
   /\ OwnTurn(last.fen, last.aiColor)
   /\ last.prev.depth >= 1
   /\ last.prev.depth < last.depth
   /\ last.prev.rnd = NoJitter
   /\ OwnTurn(last.prev.fen, last.prev.aiColor)
   /\ DOMAIN last.tt0 # {}
   /\ last.bestMove # NoMove
   /\ BestByFullMinimax(FreshSearch.bestMove))
  => /\ BestByFullMinimax(last.bestMove)

Finite(x) == NegInf < x /\ x < Inf

C8_QuiescenceBounded ==
  /\ last.maxQPly <= 3
  /\ \A k \in DOMAIN transpositionTable : Finite(transpositionTable[k].value)
  /\ (Searched /\ last.bestMove # NoMove) => Finite(last.bestValue)

C8_Witness ==
  /\ Searched
  /\ last.maxQPly = 3
  /\ Finite(last.bestValue)

(***************************************************************************)
(* C9.  In the list orderMoves returns the tiers appear in strict priority *)
(* order: the table's move, then every capture by MVV-LVA score, then the  *)
(* first killer of the ply, then the second, then the other quiet moves;   *)
(* the check, central-pawn and promotion bonuses never lift a quiet move   *)
(* above a killer or a capture.                                            *)
(***************************************************************************)
Tier(chess, move, plyFromRoot, tt, killers) ==
  IF TTBestMove(tt, Fen(chess)) # None /\ move.san = TTBestMove(tt, Fen(chess)) THEN 5
  ELSE IF isCapture(move) THEN 4
  ELSE IF killers[plyFromRoot][1] = move.san THEN 3
  ELSE IF killers[plyFromRoot][2] = move.san THEN 2
  ELSE 1

MvvLva(move) == pieceValues(move.captured) * 10 - pieceValues(move.piece)

C9_TiersInPriorityOrder ==
  \A p \in Positions, ply \in 0..MaxDepth :
    LET chess == NewChess(0, p)
        ord == orderMoves(chess, Moves(chess), ply, transpositionTable, killerMoves)
        tier(i) == Tier(chess, ord[i], ply, transpositionTable, killerMoves)
    IN \A i, j \in DOMAIN ord :
         i < j => /\ tier(i) >= tier(j)
                  /\ (tier(i) = 4 /\ tier(j) = 4) => MvvLva(ord[i]) >= MvvLva(ord[j])

(***************************************************************************)
(* C10.  Move ordering never changes which move findBestMove judges best:  *)
(* with table contents that cannot serve as values in this search, the     *)
(* move returned with the killer table as earlier episodes left it is      *)
(* worth as much as the move returned with an empty killer table.          *)
(***************************************************************************)
RECURSIVE Reach(_, _)
Reach(fen, j) ==
  IF j = 0 THEN {fen}
  ELSE UNION {{Game[q].moves[i].next : i \in DOMAIN Game[q].moves} : q \in Reach(fen, j - 1)}

\* No entry of tt is deep enough to be returned anywhere in the tree.
TableOnlyOrders(tt, fen, depth) ==
  \A j \in 0..depth : \A k \in Reach(fen, j) \cap DOMAIN tt : tt[k].depth < depth - j

GenerationOrderSearch ==
  findBestMove(NewChess(0, last.fen), last.depth, last.aiColor,
               StartState(last.tt0, EmptyKillers, last.rnd))

C10_OrderingKeepsBestMove ==
  (/\ Searched
   /\ last.rnd = NoJitter
   /\ OwnTurn(last.fen, last.aiColor)
   /\ TableOnlyOrders(last.tt0, last.fen, last.depth)
   /\ last.bestMove # NoMove)
  => FullMoveValue(last.bestMove, last.depth, IsMax)
       = FullMoveValue(GenerationOrderSearch.bestMove, last.depth, IsMax)

(***************************************************************************)
(* C11.  When several root moves obtain the same best value, findBestMove  *)
(* returns the one that comes first in the ordered root-move list: the     *)
(* best move is replaced only by a strictly better value.                  *)
(***************************************************************************)
\* The values minimax returned for the root moves, and the best of them.
RootValues == {last.searched[j].value : j \in DOMAIN last.searched}
BestRootValue == IF IsMax THEN SetMax(RootValues) ELSE SetMin(RootValues)
\* The first root move, in search order, that obtained the best value.
FirstBest == SetMin({j \in DOMAIN last.searched : last.searched[j].value = BestRootValue})

C11_FirstOfEqualBestWins ==
  (Searched /\ last.searched # <<>>) =>
    /\ [j \in DOMAIN last.searched |-> last.searched[j].move]
         = orderMoves(NewChess(0, last.fen), Game[last.fen].moves, 0,
                      last.tt0, last.killers0)
    /\ last.bestValue = BestRootValue
    /\ last.bestMove = last.searched[FirstBest].move

C11_Witness ==
  /\ Searched /\ last.searched # <<>>
  /\ \E j \in DOMAIN last.searched :
       j > FirstBest /\ last.searched[j].value = BestRootValue
  /\ last.bestMove = last.searched[FirstBest].move

(***************************************************************************)
(* C14.  The counters nodesSearched, quiescenceNodes and transpositionHits *)
(* are zero when each episode's search begins, so the statistics posted    *)
(* with a reply count only that episode's nodes and hits; exactly one      *)
(* reply is posted per 'move' message and none for any other action.       *)
(***************************************************************************)
\* The same search counted from zero.
CountedFromZero ==
  StatsOf(findBestMove(NewChess(0, last.fen), last.depth, last.aiColor,
                       StartState(last.tt0, last.killers0, last.rnd)).st)

EpisodeStatsFresh ==
  Searched =>
    /\ last.stats0 = ZeroStats
    /\ posted[Len(posted)].stats = CountedFromZero
    /\ searchStats = CountedFromZero

OneReplyPerMove ==
  /\ last'.action = "move" =>
       /\ Len(posted') = Len(posted) + 1
       /\ posted'[Len(posted')].bestMove = last'.bestMove
  /\ last'.action # "move" => posted' = posted

Terminal == {p \in Positions : Game[p].mate \/ Game[p].draw}
Windows == {<<NegInf, Inf>>, <<-3, 4>>, <<-20000, -10001>>}

\* The value the older minimax gives a terminal position.
OldTerminalValue(p, isMaximisingPlayer) ==
  IF Game[p].mate THEN (IF isMaximisingPlayer THEN NegInf ELSE Inf) ELSE 0

\* What the claim looks at in a minimax result.
LeafFacts(r) == <<r.value, r.st.nodesSearched, r.st.quiescenceNodes, r.st.killers, r.chess>>

\* The same for a cached value, and for q, quiescenceSearch's result.
CachedFacts(entry, chess) == <<entry.value, 1, 0, killerMoves, chess>>
QuiescenceFacts(q, chess) == <<q.value, 1, 1, killerMoves, chess>>

TerminalLeaf(p, d, w, isMax) ==
  /\ LeafFacts(minimax(d, NewChess(0, p), isMax, w[1], w[2], 0,
                       StartState(transpositionTable, killerMoves, NoJitter)))
       = (IF p \in DOMAIN transpositionTable /\ transpositionTable[p].depth >= d
          THEN CachedFacts(transpositionTable[p], NewChess(0, p))
          ELSE QuiescenceFacts(
                 quiescenceSearch(NewChess(0, p), w[1], w[2], 0, 3,
                                  StartState(transpositionTable, killerMoves, NoJitter)),
                 NewChess(0, p)))
  /\ oldMinimax(d, NewChess(0, p), w[1], w[2], isMax, OldStartState(oldKillers))
       = OldRet(OldTerminalValue(p, isMax), OldStartState(oldKillers), NewChess(0, p))

C15_TerminalTakesLeafPath ==
  \A p \in Terminal, d \in 1..MaxDepth, w \in Windows, isMax \in BOOLEAN :
    TerminalLeaf(p, d, w, isMax)

\* Some root move of fen leads to a terminal position.
TerminalChild(fen) == \E i \in DOMAIN Game[fen].moves : Game[fen].moves[i].next \in Terminal

C15_Witness ==
  /\ Searched /\ last.depth >= 2 /\ TerminalChild(last.fen)
  /\ \E p \in Terminal \cap DOMAIN transpositionTable : transpositionTable[p].depth >= 1
  /\ oldLast.searched /\ oldLast.depth >= 2 /\ TerminalChild(oldLast.fen)

QuietCutsAt(cuts, row) == {c[2] : c \in {x \in cuts : x[1] = row /\ x[2].captured = None}}

KillerSlotsJustified ==
  \A ply \in DOMAIN killerMoves, k \in 1..2 :
    \/ killerMoves[ply][k] = None
    \/ ~Searched
    \/ killerMoves[ply][k] \in {last.killers0[ply][1], last.killers0[ply][2]}
    \/ \E m \in QuietCutsAt(last.cuts, ply) : m.san = killerMoves[ply][k]

OldKillerSlotsJustified ==
  \A d \in DOMAIN oldKillers, k \in 1..2 :
    \/ oldKillers[d][k] = NoKey
    \/ ~oldLast.searched
    \/ oldKillers[d][k] \in {oldLast.killers0[d][1], oldLast.killers0[d][2]}
    \/ \E m \in QuietCutsAt(oldLast.cuts, d) : MoveKey(m) = oldKillers[d][k]

\* The capturing moves of the game graph.
CapturingMoves ==
  {Game[p].moves[i] : <<p, i>> \in {x \in Positions \X (1..6) :
       x[2] \in DOMAIN Game[x[1]].moves /\ Game[x[1]].moves[x[2]].captured # None}}

C18_KillersOnlyQuietCutoffMoves ==
  /\ KillerSlotsJustified
  /\ OldKillerSlotsJustified
  /\ \A m \in CapturingMoves :
       /\ \A ply \in DOMAIN killerMoves : m.san \notin {killerMoves[ply][1], killerMoves[ply][2]}
       /\ \A d \in DOMAIN oldKillers : MoveKey(m) \notin {oldKillers[d][1], oldKillers[d][2]}

C18_Witness ==
  /\ Searched /\ \E c \in last.cuts : c[2].captured # None
  /\ killerMoves # last.killers0
  /\ oldLast.searched /\ \E c \in oldLast.cuts : c[2].captured # None

(***************************************************************************)
(* C19.  In the newer worker's minimax, recording a killer K at ply p      *)
(* leaves the slots unchanged when K equals the first slot, and otherwise  *)
(* moves the old first slot into the second and puts K in the first; so in *)
(* every reachable state the two slots of a ply never hold the same move.  *)
(***************************************************************************)
\* The SANs of the quiet moves of the game graph.
QuietSans ==
  {Game[x[1]].moves[x[2]].san : x \in {y \in Positions \X (1..6) :
       y[2] \in DOMAIN Game[y[1]].moves /\ Game[y[1]].moves[y[2]].captured = None}}

C19_KillerSlotsFifoDistinct ==
  /\ \A ply \in DOMAIN killerMoves :
       killerMoves[ply][1] # None => killerMoves[ply][1] # killerMoves[ply][2]
  /\ \A ply \in 0..MaxDepth, K \in QuietSans :
       RecordKiller(killerMoves, ply, K)
         = IF killerMoves[ply][1] = K THEN killerMoves
           ELSE [q \in DOMAIN killerMoves |->
                   IF q = ply THEN <<K, killerMoves[ply][1]>> ELSE killerMoves[q]]
  /\ \A ply \in 0..MaxDepth :
       killerMoves[ply][2] # None => killerMoves[ply][1] # None

C19_Witness ==
  /\ Searched
  /\ \E ply \in DOMAIN killerMoves :
       /\ killerMoves[ply][1] # None /\ killerMoves[ply][2] # None
       /\ killerMoves[ply][1] # killerMoves[ply][2]
  /\ \E c \in last.cuts :
       c[2].captured = None /\ last.killers0[c[1]][1] = c[2].san

(***************************************************************************)
(* C20.  Across any sequence of search episodes in one worker, a           *)
(* transposition entry once written for a key is never removed, and the    *)
(* depth stored for a key never decreases: an entry is only overwritten by *)
(* a result computed at a depth greater than or equal to the stored depth. *)
(***************************************************************************)
C20_TableDepthNeverDecreases ==
  /\ last.storesOk
  /\ Searched =>
       \A k \in DOMAIN last.tt0 :
         /\ k \in DOMAIN transpositionTable
         /\ transpositionTable[k].depth >= last.tt0[k].depth

C20_Witness ==
  /\ Searched
  /\ last.storesOk
  /\ \E k \in DOMAIN last.tt0 : transpositionTable[k].depth > last.tt0[k].depth
  /\ \E k \in DOMAIN transpositionTable : k \notin DOMAIN last.tt0

(***************************************************************************)
(* C12.  For every message handled by the ai-worker.js onmessage handler   *)
(* whose FEN normalizes (piece placement + side to move) to a key of the   *)
(* opening book, exactly one reply is posted, that reply is one of the     *)
(* candidate moves catalogued for that key, and minimaxRoot is not         *)
(* invoked; minimaxRoot is invoked only when the key is absent.            *)
(***************************************************************************)
\* Piece placement and side to move of the position a message carries.
BookKey(p) == <<Placement(p), Game[p].turn>>
Candidates(key) == {OpeningBookAtStart[key][i] : i \in DOMAIN OpeningBookAtStart[key]}

\* The older worker handled a message in this step.
OldHandled == oldLast'.n = oldLast.n + 1

C12_BookHit ==
  (OldHandled /\ BookKey(oldLast'.fen) \in DOMAIN OpeningBookAtStart) =>
    /\ Len(oldPosted') = Len(oldPosted) + 1
    /\ oldPosted'[Len(oldPosted')] \in Candidates(BookKey(oldLast'.fen))
    /\ oldLast'.book /\ ~oldLast'.searched /\ oldLast'.calls = 0
    /\ oldKillers' = oldKillers

C12_BookMiss ==
  (OldHandled /\ oldLast'.searched) => BookKey(oldLast'.fen) \notin DOMAIN OpeningBookAtStart

C12_BookReplyWithoutSearch == [][C12_BookHit /\ C12_BookMiss]_vars

C12_Witness ==
  /\ oldLast.n = 2 /\ oldLast.book /\ ~oldLast.searched
  /\ Len(OpeningBookAtStart[BookKey(oldLast.fen)]) > 1
  /\ Len(oldPosted) = 2
  /\ oldPosted[2] \in Candidates(BookKey(oldLast.fen))
  /\ oldPosted[2] # OpeningBookAtStart[BookKey(oldLast.fen)][1]

(***************************************************************************)
(* C13.  With the jitter term left out, evaluatePosition of a position and *)
(* of its colour-mirrored counterpart (board flipped vertically, piece     *)
(* colours swapped, side to move swapped) are exact negations of each      *)
(* other, for every term: material, piece-square bonus, bishop pair,       *)
(* mobility, king safety, doubled pawns and the checkmate/draw shortcuts.  *)
(***************************************************************************)
OtherColor(color) == IF color = "w" THEN "b" ELSE "w"

\* The colour-mirrored position.  The rules of chess treat the two colours
\* alike, so chess.js gives the mirrored position the same answers.
Mirror(position) ==
  [position EXCEPT
     !.board = [sq \in Squares |->
                  IF position.board[<<7 - sq[1], sq[2]>>] = Empty THEN Empty
                  ELSE Piece(position.board[<<7 - sq[1], sq[2]>>].type,
                             OtherColor(position.board[<<7 - sq[1], sq[2]>>].color))],
     !.turn = OtherColor(position.turn)]

C13_MirrorNegatesEvaluation ==
  (evalOut.done /\ evalOut.digit = 5) =>
    /\ MaterialScore(Mirror(evalIn).board) = -MaterialScore(evalIn.board)
    /\ PositionBonusScore(Mirror(evalIn).board) = -PositionBonusScore(evalIn.board)
    /\ BishopPairScore(Mirror(evalIn).board) = -BishopPairScore(evalIn.board)
    /\ MobilityScore(Mirror(evalIn).turn, evalIn.currentMoves, evalIn.opposingMoves)
         = -MobilityScore(evalIn.turn, evalIn.currentMoves, evalIn.opposingMoves)
    /\ KingSafetyScore(Mirror(evalIn).board) = -KingSafetyScore(evalIn.board)
    /\ DoubledPawnScore(Mirror(evalIn).board) = -DoubledPawnScore(evalIn.board)
    /\ evaluatePositionOnBoard(Mirror(evalIn), 5) = -evalOut.score

C13_Witness ==
  /\ evalOut.done /\ evalOut.digit = 5
  /\ ~evalIn.checkmate /\ ~evalIn.draw
  /\ PositionBonusScore(evalIn.board) # 0
  /\ KingSafetyScore(evalIn.board) # 0
  /\ MobilityScore(evalIn.turn, evalIn.currentMoves, evalIn.opposingMoves) # 0
  /\ MaterialScore(evalIn.board) # 0
  /\ evalOut.score # 0
  /\ evaluatePositionOnBoard(Mirror(evalIn), 5) = -evalOut.score

(***************************************************************************)
(* C16.  requestStockfishMove called while the engine worker does not      *)
(* exist or 'readyok' has not yet been received returns false and has no   *)
(* effect: no command is posted to the engine, no message listener is      *)
(* registered, and the callback is never invoked for that call; it returns *)
(* true only when the request was actually sent.                           *)
(***************************************************************************)
\* requestStockfishMove was called in this step.
RequestMade == Len(requests') = Len(requests) + 1

EngineNotReady == stockfish = None \/ CountLines(engineOut, "readyok") = 0

RejectedWithoutEffect ==
  (RequestMade /\ EngineNotReady) =>
    /\ ~requests'[Len(requests')].returned
    /\ UNCHANGED <<engineIn, listeners, callbacks, stockfish, stockfishReady>>

TrueOnlyWhenSent ==
  (RequestMade /\ requests'[Len(requests')].returned) =>
    /\ ~EngineNotReady
    /\ Len(engineIn') = Len(engineIn) + 3
    /\ engineIn'[Len(engineIn') - 1] = Cmd("position fen", requests'[Len(requests')].fen)
    /\ engineIn'[Len(engineIn')].name = "go movetime"
    /\ listeners' = Append(listeners, RequestListener(Len(requests')))

NoCallbackForRejected ==
  \A k \in DOMAIN callbacks : requests[callbacks[k].id].returned

C16_NotReadyRequestHasNoEffect ==
  []NoCallbackForRejected /\ [][RejectedWithoutEffect /\ TrueOnlyWhenSent]_vars

C16_Witness ==
  /\ stockfish # None
  /\ Len(requests) = 2
  /\ ~requests[1].returned
  /\ requests[2].returned
  /\ CountCmds(engineIn, "go movetime") = 1
  /\ Len(callbacks) = 1 /\ callbacks[1].id = 2
  /\ listeners = <<InitListener>>

(***************************************************************************)
(* C21.  The value quiescenceSearch hands back to minimax at a leaf is a   *)
(* score in the fixed-colour convention of the tree (black maximizes,      *)
(* white minimizes): under a full window it equals the minimax value of    *)
(* the capture-only tree below the leaf, cut at 3 quiescence plies, in     *)
(* which the side to move may stand pat on evaluatePosition at every node, *)
(* whichever side is to move at the leaf.                                  *)
(***************************************************************************)
\* evaluatePosition without jitter.
StandPat(fen) ==
  evaluatePosition(NewChess(0, fen), StartState(<<>>, EmptyKillers, NoJitter)).value

\* The capture-only minimax of the property: the mover takes the stand-pat
\* score or the best capture, black maximizing and white minimizing.
RECURSIVE CaptureMinimax(_, _)
CaptureMinimax(fen, ply) ==
  LET captures == Captures(Game[fen].moves)
      options == {StandPat(fen)} \cup
                 (IF ply >= 3 THEN {}
                  ELSE {CaptureMinimax(captures[i].next, ply + 1) : i \in DOMAIN captures})
  IN IF Game[fen].turn = "b" THEN SetMax(options) ELSE SetMin(options)

\* The root moves of the last episode whose position was a leaf handed to
\* quiescenceSearch under the full window (depth 1, nothing cached for it).
FullWindowLeaves ==
  {i \in DOMAIN last.searched :
     /\ last.depth = 1
     /\ last.rnd = NoJitter
     /\ last.searched[i].alpha = NegInf
     /\ last.searched[i].beta = Inf
     /\ last.searched[i].move.next \notin DOMAIN last.tt0}

C21_QuiescenceIsFixedColourMinimax ==
  \A i \in FullWindowLeaves :
    last.searched[i].value = CaptureMinimax(last.searched[i].move.next, 0)

(***************************************************************************)
(* C22.  The random jitter evaluatePosition adds to a non-terminal score   *)
(* is symmetric and zero-mean: for every jitter j it can add, -j can be    *)
(* added as well (each value of the random digit being equally likely,     *)
(* with the same probability).                                             *)
(***************************************************************************)
\* The jitter in the score evaluatePosition returned.
JitterAdded == evalOut.score - BoardScore(evalIn)

\* The jitters evaluatePosition can add to the position at hand, one for
\* each equally likely value of the random digit.
PossibleJitters == {evaluatePositionOnBoard(evalIn, d) - BoardScore(evalIn) : d \in RandomDigits}

C22_JitterSymmetric ==
  (evalOut.done /\ ~evalIn.checkmate /\ ~evalIn.draw) => -JitterAdded \in PossibleJitters

(***************************************************************************)
(* C23.  For each requestStockfishMove call that returned true the         *)
(* callback is invoked at most once: the request's listener is removed     *)
(* before the callback runs, so a later 'bestmove' line from the engine    *)
(* does not invoke that callback again.                                    *)
(***************************************************************************)
\* The invocations of the callback of request id.
CallbacksOf(id) == {k \in DOMAIN callbacks : callbacks[k].id = id}

C23_CallbackAtMostOnce ==
  /\ \A id \in DOMAIN requests : Cardinality(CallbacksOf(id)) <= 1
  /\ \A k \in DOMAIN callbacks :
       /\ ~callbacks[k].listening
       /\ ~Member(listeners, RequestListener(callbacks[k].id))

\* Two requests answered one after the other: the second 'bestmove' line
\* came after the first request's callback had run.
C23_Witness ==
  /\ Len(requests) = 2
  /\ requests[1].returned /\ requests[2].returned
  /\ requests[1].fen = "fenA" /\ requests[2].fen = "fenB"
  /\ CountLines(engineOut, "bestmove") = 2
  /\ Cardinality(CallbacksOf(1)) = 1
  /\ callbacks[Len(callbacks)] = [id |-> 2, bestMove |-> "g8f6", listening |-> FALSE]

(***************************************************************************)
(* C24.  When two requestStockfishMove calls are outstanding at the same   *)
(* time (the second made before the engine answered the first), each       *)
(* callback is invoked with the best move the engine computed for that     *)
(* call's own position, never with the reply to the other request.         *)
(***************************************************************************)
C24_CallbackGetsOwnReply ==
  \A k \in DOMAIN callbacks :
    callbacks[k].bestMove = EngineChoice(requests[callbacks[k].id].fen)

(***************************************************************************)
(* C25.  Every requestStockfishMove call that returned true invokes its    *)
(* callback and removes its listener once the engine has emitted the       *)
(* 'bestmove' line for that search, whatever token follows 'bestmove',     *)
(* the UCI reply 'bestmove (none)' for a position with no legal move       *)
(* included.                                                               *)
(***************************************************************************)
\* The place of request id among the searches sent to the engine.
SearchIndex(id) == Cardinality({j \in 1..id : requests[j].returned})

\* The engine has emitted the 'bestmove' line of request id's search.
Answered(id) ==
  requests[id].returned /\ CountLines(engineOut, "bestmove") >= SearchIndex(id)

C25_AnsweredRequestCallsBack ==
  \A id \in DOMAIN requests :
    Answered(id) =>
      /\ CallbacksOf(id) # {}
      /\ ~Member(listeners, RequestListener(id))

(***************************************************************************)
(* C26.  For every search depth the message handlers accept, every read    *)
(* and write of the killer table uses an index inside the table            *)
(* (ai-worker.js: MAX_DEPTH = 4 rows indexed by remaining depth; the       *)
(* search worker: 20 rows indexed by ply from root), so no search episode  *)
(* aborts on an out-of-range killer slot.                                  *)
(***************************************************************************)
C26_KillerIndexInsideTable == ~last.err /\ ~oldLast.err

(***************************************************************************)
(* C27.  In every reachable state each transposition entry consists of a   *)
(* value and a depth only: no write ever records a bestMove, so the lookup *)
(* of the entry's bestMove in orderMoves always finds none and the         *)
(* transposition-move priority tier is never applied to any move.          *)
(***************************************************************************)
\* The score orderMoves gives the table's move.
TableMoveScore == 10000000

C27_TableHoldsNoBestMove ==
  /\ \A fen \in DOMAIN transpositionTable :
       /\ DOMAIN transpositionTable[fen] = {"value", "depth"}
       /\ TTBestMove(transpositionTable, fen) = None
  /\ \A p \in Positions :
       \A i \in DOMAIN Game[p].moves :
         MoveScore(NewChess(0, p), Game[p].moves[i], 0, transpositionTable, killerMoves)
           < TableMoveScore

\* A second episode expanded a position again for which the table held an
\* entry: orderMoves looked the entry up and found no bestMove in it.
C27_Witness ==
  /\ Searched
  /\ last.n = 2
  /\ \E p \in DOMAIN last.tt0 :
       /\ Game[p].moves # <<>>
       /\ ~Game[p].mate /\ ~Game[p].draw
       /\ last.tt0[p].depth >= 1
       /\ transpositionTable[p].depth > last.tt0[p].depth
       /\ TTBestMove(last.tt0, p) = None

(***************************************************************************)
(* C28.  Handling any sequence of messages leaves the opening-book table   *)
(* unchanged: the shuffle runs on a copy of the candidate list, so the set *)
(* and order of candidates stored for every key are the same after any     *)
(* number of book hits as at worker start.                                 *)
(***************************************************************************)
C28_BookUnchanged == openingBook = OpeningBookAtStart

\* Two book hits on a key with several candidates, each answered with a
\* candidate the shuffle had moved to the front.
C28_Witness ==
  /\ oldLast.n = 2 /\ oldLast.book
  /\ Len(oldPosted) = 2
  /\ \A k \in 1..2 :
       /\ oldPosted[k] \in Candidates(BookKey(oldLast.fen))
       /\ oldPosted[k] # OpeningBookAtStart[BookKey(oldLast.fen)][1]
  /\ oldPosted[1] # oldPosted[2]
  /\ openingBook[BookKey(oldLast.fen)] = OpeningBookAtStart[BookKey(oldLast.fen)]

====
